---- MODULE Spec2Model ----
(***************************************************************************)
(* A model of the Lox tree-walking interpreter of this repository: the     *)
(* driver pipeline (Lox::run: parse, resolve, interpret), the resolver,    *)
(* the evaluator with its environment graph, and the runtime values.       *)
(*                                                                         *)
(* The evaluator and the resolver are recursive visitors in the source;    *)
(* they are modelled as recursive operators that thread the interpreter's  *)
(* state (the environment heap, the function heap, the current             *)
(* environment, the output) the way the Rust code threads &mut self.  One  *)
(* action runs one iteration of the top-level loops of Resolver::resolve   *)
(* and Interpreter::interpret.                                             *)
(***************************************************************************)
EXTENDS Integers, Sequences, FiniteSets, TLC

(***************************************************************************)
(* Bounds of the model.                                                    *)
(***************************************************************************)
\* literal numbers the drawn programs use range over 0..MaxNum
MaxNum == 2
\* the clock builtin answers a value of 0..MaxClock
MaxClock == 1
\* calls plus loop iterations one top-level statement may make
MaxFuel == 12

(***************************************************************************)
(* Runtime values: enum Object (object.rs).  One record shape for every    *)
(* variant; t is the variant tag.  Function(Some(rc), None) holds the id   *)
(* of a function object in f, Function(None, Some(ptr)) the native's name  *)
(* in s.  Instance holds the id of an instance object in f.                *)
(***************************************************************************)
Nil == [t |-> "Nil", n |-> 0, s |-> "", b |-> FALSE, f |-> 0]
Number(x) == [t |-> "Number", n |-> x, s |-> "", b |-> FALSE, f |-> 0]
String(x) == [t |-> "String", n |-> 0, s |-> x, b |-> FALSE, f |-> 0]
Boolean(x) == [t |-> "Boolean", n |-> 0, s |-> "", b |-> x, f |-> 0]
Function(fid, native) == [t |-> "Function", n |-> 0, s |-> native, b |-> FALSE, f |-> fid]
Instance(iid) == [t |-> "Instance", n |-> 0, s |-> "", b |-> FALSE, f |-> iid]

\* impl PartialEq for Object: functions (and anything else) fall to `_ => false`
ObjectEq(a, b) ==
    CASE a.t = "String" /\ b.t = "String" -> a.s = b.s
      [] a.t = "Number" /\ b.t = "Number" -> a.n = b.n
      [] a.t = "Boolean" /\ b.t = "Boolean" -> a.b = b.b
      [] a.t = "Nil" /\ b.t = "Nil" -> TRUE
      [] OTHER -> FALSE

\* PartialEq::ne is the provided method: !eq
ObjectNe(a, b) == ~ObjectEq(a, b)

\* Object::is_nil
is_nil(o) == ObjectEq(o, Nil)

\* impl PartialOrd for Object: "lt", "eq", "gt", or "none" when incomparable
partial_cmp(a, b) ==
    CASE a.t = "Number" /\ b.t = "Number" ->
            IF a.n < b.n THEN "lt" ELSE IF a.n = b.n THEN "eq" ELSE "gt"
      [] a.t = "Boolean" /\ b.t = "Boolean" ->
            IF a.b = b.b THEN "eq" ELSE IF b.b THEN "lt" ELSE "gt"
      [] OTHER -> "none"

\* the provided methods of PartialOrd, as the operators > >= < <= call them
ObjectGt(a, b) == partial_cmp(a, b) = "gt"
ObjectGe(a, b) == partial_cmp(a, b) \in {"gt", "eq"}
ObjectLt(a, b) == partial_cmp(a, b) = "lt"
ObjectLe(a, b) == partial_cmp(a, b) \in {"lt", "eq"}

\* bool::to_string
BoolToString(x) == IF x THEN "true" ELSE "false"

\* f64::to_string of the integral numbers the model computes with
NumToString(x) == ToString(x)

\* impl Add for Object, the string always first
ObjectAdd_string_first(a, b) ==
    CASE a.t = "Number" /\ b.t = "String" -> String(b.s \o NumToString(a.n))
      [] a.t = "String" /\ b.t = "Number" -> String(a.s \o NumToString(b.n))
      [] a.t = "Boolean" /\ b.t = "String" -> String(b.s \o BoolToString(a.b))
      [] a.t = "String" /\ b.t = "Boolean" -> String(a.s \o BoolToString(b.b))
      [] a.t = "Number" /\ b.t = "Number" -> Number(a.n + b.n)
      [] a.t = "String" /\ b.t = "String" -> String(a.s \o b.s)
      [] OTHER -> Nil

\* impl Add for Object
ObjectAdd(a, b) ==
    CASE a.t = "Number" /\ b.t = "String" -> String(NumToString(a.n) \o b.s)
      [] a.t = "String" /\ b.t = "Number" -> String(a.s \o NumToString(b.n))
      [] a.t = "Boolean" /\ b.t = "String" -> String(BoolToString(a.b) \o b.s)
      [] a.t = "String" /\ b.t = "Boolean" -> String(a.s \o BoolToString(b.b))
      [] a.t = "Number" /\ b.t = "Number" -> Number(a.n + b.n)
      [] a.t = "String" /\ b.t = "String" -> String(a.s \o b.s)
      [] OTHER -> Nil

\* impl Sub for Object
ObjectSub(a, b) ==
    IF a.t = "Number" /\ b.t = "Number" THEN Number(a.n - b.n) ELSE Nil

\* impl Div for Object; the programs of the model keep quotients integral
ObjectDiv(a, b) ==
    CASE a.t = "Number" /\ b.t = "Number" /\ b.n = 0 -> Nil
      [] a.t = "Number" /\ b.t = "Number" /\ b.n # 0 -> Number(a.n \div b.n)
      [] OTHER -> Nil

\* impl Mul for Object
ObjectMul(a, b) ==
    IF a.t = "Number" /\ b.t = "Number" THEN Number(a.n * b.n) ELSE Nil

\* impl fmt::Display for Object: a function prints as the empty string
Display(o) ==
    CASE o.t = "String" -> o.s
      [] o.t = "Number" -> NumToString(o.n)
      [] o.t = "Boolean" -> BoolToString(o.b)
      [] o.t = "Nil" -> "nil"
      [] OTHER -> ""

(***************************************************************************)
(* Errors.  A Rust Err(Box<dyn Error>) is a LoxError of a kind at a token  *)
(* line with a message, a plain string error (the natives), or the Return  *)
(* unwind; a panic (unwrap of None, todo!()) aborts the process.           *)
(***************************************************************************)
\* where_ is the text ParseError::report puts after the line (" at end" or
\* " at 'lexeme'"); RuntimeError::report leaves it empty
NoErr == [kind |-> "", line |-> 0, msg |-> "", where_ |-> ""]
LoxError(kind, line, msg) == [kind |-> kind, line |-> line, msg |-> msg, where_ |-> ""]

\* ErrorType::report / ErrorType::write
report(e) == e.kind \o " [line " \o ToString(e.line) \o "] " \o e.where_ \o ": " \o e.msg

(***************************************************************************)
(* Environments (env.rs).  The heap envs is the sequence of the            *)
(* Rc<RefCell<Environment>> allocated so far; an environment is named by   *)
(* its index, and enclosing = 0 is None.  values maps the defined names.   *)
(***************************************************************************)
NoValues == [x \in {} |-> Nil]

\* Environment::new
EnvironmentNew == [values |-> NoValues, enclosing |-> 0]

\* Environment::from
\* an environment made without its enclosing link
EnvironmentFrom_detached(enclosing) == [values |-> NoValues, enclosing |-> 0]

EnvironmentFrom(enclosing) == [values |-> NoValues, enclosing |-> enclosing]

\* HashMap::insert on values
Insert(values, name, v) ==
    [x \in (DOMAIN values) \cup {name} |-> IF x = name THEN v ELSE values[x]]

\* the loop of Environment::ancestor: 0 when an unwrap of None panics
RECURSIVE WalkEnclosing(_, _, _)
WalkEnclosing(envs, id, distance) ==
    IF distance <= 0 THEN id
    ELSE IF envs[id].enclosing = 0 THEN 0
    ELSE WalkEnclosing(envs, envs[id].enclosing, distance - 1)

\* Environment::ancestor: the result of distance 0 is a fresh Rc holding a
\* clone of the environment (copy), any other one is a shared environment
env_ancestor(envs, id, distance) ==
    [id |-> WalkEnclosing(envs, id, distance), copy |-> distance <= 0]

\* Environment::get
env_get(envs, id, name, line) ==
    IF name \in DOMAIN envs[id].values
    THEN [ok |-> TRUE, value |-> envs[id].values[name], err |-> NoErr]
    ELSE [ok |-> FALSE, value |-> Nil,
          err |-> LoxError("RuntimeError", line, "Undefined variable '" \o name \o "'.")]

\* Environment::get_at: a name the ancestor does not define reads as Nil
env_get_at(envs, id, distance, name) ==
    LET a == env_ancestor(envs, id, distance) IN
    IF a.id = 0 THEN [panic |-> TRUE, value |-> Nil]
    ELSE IF name \in DOMAIN envs[a.id].values
    THEN [panic |-> FALSE, value |-> envs[a.id].values[name]]
    ELSE [panic |-> FALSE, value |-> Nil]

\* Environment::define
env_define(envs, id, name, line, v) ==
    IF name \notin DOMAIN envs[id].values
    THEN [ok |-> TRUE, envs |-> [envs EXCEPT ![id].values = Insert(@, name, v)], err |-> NoErr]
    ELSE [ok |-> FALSE, envs |-> envs,
          err |-> LoxError("RuntimeError", line, "variable already defined.")]

\* Environment::assign
\* an assignment that would create the binding it does not find
env_assign_creating(envs, id, name, line, v) ==
    [ok |-> TRUE, envs |-> [envs EXCEPT ![id].values = Insert(@, name, v)], err |-> NoErr]

RECURSIVE env_assign(_, _, _, _, _)
env_assign(envs, id, name, line, v) ==
    IF name \in DOMAIN envs[id].values
    THEN [ok |-> TRUE, envs |-> [envs EXCEPT ![id].values = Insert(@, name, v)], err |-> NoErr]
    ELSE IF envs[id].enclosing # 0
    THEN env_assign(envs, envs[id].enclosing, name, line, v)
    ELSE [ok |-> FALSE, envs |-> envs,
          err |-> LoxError("RuntimeError", line, "Undefined variable '" \o name \o "'.")]

\* Environment::assign_at: a write into the clone that ancestor(0) made is
\* dropped with the clone
env_assign_at(envs, id, distance, name, v) ==
    LET a == env_ancestor(envs, id, distance) IN
    IF a.id = 0 THEN [panic |-> TRUE, envs |-> envs]
    ELSE IF a.copy THEN [panic |-> FALSE, envs |-> envs]
    ELSE [panic |-> FALSE, envs |-> [envs EXCEPT ![a.id].values = Insert(@, name, v)]]

(***************************************************************************)
(* The AST (expr.rs, stmt.rs).  A node is a record tagged by k; a token    *)
(* is kept as its lexeme and its line.  NoExpr and NoStmt are None.        *)
(***************************************************************************)
NoExpr == [k |-> "None"]
NoStmt == [k |-> "None"]
Literal(value) == [k |-> "Literal", value |-> value]
Variable(name, line) == [k |-> "Variable", name |-> name, line |-> line]
Assign(name, line, value) == [k |-> "Assign", name |-> name, line |-> line, value |-> value]
Unary(operator, line, right) == [k |-> "Unary", operator |-> operator, line |-> line, right |-> right]
Binary(left, operator, line, right) ==
    [k |-> "Binary", left |-> left, operator |-> operator, line |-> line, right |-> right]
Logical(left, operator, line, right) ==
    [k |-> "Logical", left |-> left, operator |-> operator, line |-> line, right |-> right]
Grouping(expression) == [k |-> "Grouping", expression |-> expression]
Call(callee, line, arguments) ==
    [k |-> "Call", callee |-> callee, line |-> line, arguments |-> arguments]
Get(object, name, line) == [k |-> "Get", object |-> object, name |-> name, line |-> line]
Set(object, name, line, value) ==
    [k |-> "Set", object |-> object, name |-> name, line |-> line, value |-> value]
This(line) == [k |-> "This", name |-> "this", line |-> line]

ExpressionStmt(expression) == [k |-> "Expression", expression |-> expression]
PrintStmt(expression) == [k |-> "Print", expression |-> expression]
VarStmt(name, line, initializer) ==
    [k |-> "Var", name |-> name, line |-> line, initializer |-> initializer]
BlockStmt(statements) == [k |-> "Block", statements |-> statements]
IfStmt(condition, then_branch, else_branch) ==
    [k |-> "If", condition |-> condition, then_branch |-> then_branch, else_branch |-> else_branch]
WhileStmt(condition, body) == [k |-> "While", condition |-> condition, body |-> body]
FunctionStmt(name, line, params, body) ==
    [k |-> "Function", name |-> name, line |-> line, params |-> params, body |-> body]
ReturnStmt(line, value) == [k |-> "Return", line |-> line, value |-> value]
ClassStmt(name, line, methods) == [k |-> "Class", name |-> name, line |-> line, methods |-> methods]

(***************************************************************************)
(* The side-table Interpreter.locals: HashMap<ExprKey, i32>                *)
(* (interpreter/expr_key.rs).  Two keys are equal only when both hold a    *)
(* Variable expression with the same lexeme and line; a key that holds an  *)
(* Assign or a This equals no key, itself included.  The table is the      *)
(* sequence of its entries.                                                *)
(***************************************************************************)
ExprKey(kind, name, line) == [kind |-> kind, name |-> name, line |-> line]

\* impl PartialEq for ExprKey
ExprKeyEq(x, y) ==
    IF x.kind = "Variable" /\ y.kind = "Variable"
    THEN x.name = y.name /\ x.line = y.line
    ELSE FALSE

\* HashMap::get: -1 is None
LocalsGet(locals, key) ==
    IF \E i \in DOMAIN locals : ExprKeyEq(locals[i].key, key)
    THEN locals[CHOOSE i \in DOMAIN locals : ExprKeyEq(locals[i].key, key)].depth
    ELSE -1

\* Interpreter::resolve: HashMap::insert keeps an equal key and replaces its value
interpreter_resolve(locals, key, depth) ==
    IF \E i \in DOMAIN locals : ExprKeyEq(locals[i].key, key)
    THEN [i \in DOMAIN locals |->
            IF ExprKeyEq(locals[i].key, key) THEN [key |-> locals[i].key, depth |-> depth]
            ELSE locals[i]]
    ELSE Append(locals, [key |-> key, depth |-> depth])

(***************************************************************************)
(* The evaluator (interpreter.rs, function.rs, object.rs, callable.rs).    *)
(*                                                                         *)
(* m is the interpreter together with the heap it works on:                *)
(*   envs     the environments allocated so far                            *)
(*   funs     the function objects (function::Function) allocated so far   *)
(*   env      Interpreter.env, globals  Interpreter.globals                *)
(*   locals   Interpreter.locals                                           *)
(*   out      the lines printed so far                                     *)
(*   clock    what the system clock answers                                *)
(*   fuel     calls and loop iterations left (the model's bound)           *)
(*   borrowed the function objects whose RefCell is mutably borrowed       *)
(*   act, log history: the running call (0 at top level) and the events   *)
(*            seen so far: "execute" a statement, "call" entered,           *)
(*            "return" a `return e;` ran (with the value of e), "return;"   *)
(*            a bare return ran, "end" a body ran to its end, "exit" the    *)
(*            call answered a value, "abort" the call answered an error    *)
(* A visitor answers a result: status "ok" with a value, "error" with the  *)
(* error, "return" (the Return unwind, an Err in the source) with its      *)
(* value, "panic", or "fuel"; m is the state it leaves behind.             *)
(***************************************************************************)
Ok(v, m) == [status |-> "ok", value |-> v, err |-> NoErr, m |-> m]
Err(e, m) == [status |-> "error", value |-> Nil, err |-> e, m |-> m]
ReturnUnwind(v, m) == [status |-> "return", value |-> v, err |-> NoErr, m |-> m]
Panic(msg, m) == [status |-> "panic", value |-> Nil, err |-> LoxError("panic", 0, msg), m |-> m]
OutOfFuel(m) == [status |-> "fuel", value |-> Nil, err |-> NoErr, m |-> m]

Event(ev, act, v) == [ev |-> ev, act |-> act, v |-> v]
Logged(m, ev, act, v) == [m EXCEPT !.log = Append(@, Event(ev, act, v))]

\* Interpreter::error
interpreter_error(message, line) == LoxError("RuntimeError", line, message)

\* Interpreter::is_truthy
is_truthy(object) ==
    CASE object.t = "Nil" -> FALSE
      [] object.t = "Boolean" -> object.b
      [] OTHER -> TRUE

\* Interpreter::lookup_variable
lookup_variable(m, name, line) ==
    LET distance == LocalsGet(m.locals, ExprKey("Variable", name, line)) IN
    IF distance # -1
    THEN LET g == env_get_at(m.envs, m.env, distance, name) IN
         IF g.panic THEN Panic("called Option::unwrap() on a None value", m)
         ELSE Ok(g.value, m)
    ELSE LET g == env_get(m.envs, m.globals, name, line) IN
         IF g.ok THEN Ok(g.value, m) ELSE Err(g.err, m)

\* callable.rs: fn clock
native_clock(m, argv) ==
    IF Len(argv) # 0
    THEN Err(LoxError("String", 0,
                 "Expected 0 arguments found " \o ToString(Len(argv)) \o " arguments"), m)
    ELSE Ok(Number(m.clock), m)

\* callable.rs: fn assert
native_assert(m, argv) ==
    IF Len(argv) # 1
    THEN Err(LoxError("String", 0,
                 "Expected 1 argument found " \o ToString(Len(argv)) \o " arguments"), m)
    ELSE IF ObjectEq(argv[1], Boolean(TRUE)) THEN Ok(Nil, m)
    ELSE Err(LoxError("String", 0, "Assertion failed"), m)

\* callable.rs: get_native_functions
NativeFunctions == <<"clock", "assert">>

\* the call through the fn pointer of Object::Function(None, Some(ptr))
native_call(name, m, argv) ==
    IF name = "clock" THEN native_clock(m, argv) ELSE native_assert(m, argv)

\* the check of Object::call before it calls the function: the error of a
\* wrong argument count, NoErr when the counts agree
arity_check(declaration, arguments) ==
    IF Len(declaration.params) # Len(arguments)
    THEN interpreter_error("Expected " \o ToString(Len(declaration.params))
                             \o " arguments but got " \o ToString(Len(arguments)) \o ".",
                           declaration.line)
    ELSE NoErr

\* the loop of Function::call that defines the parameters (a parameter
\* token is kept as its name; its line is the declaration's)
RECURSIVE define_params(_, _, _, _, _)
define_params(envs, id, declaration, arguments, i) ==
    IF i > Len(declaration.params) THEN [ok |-> TRUE, envs |-> envs, err |-> NoErr]
    ELSE LET d == env_define(envs, id, declaration.params[i], declaration.line, arguments[i]) IN
         IF ~d.ok THEN d
         ELSE define_params(d.envs, id, declaration, arguments, i + 1)

\* a Function::call that catches the Return unwind and drops its value
catch_return_dropping(r) ==
    CASE r.status = "return" -> Ok(Nil, r.m)
      [] r.status = "ok" -> Ok(Nil, r.m)
      [] OTHER -> r

\* Function::call, lines 57-71: what the call answers for the result r of
\* the body: a Return unwind is caught and its value is the call's value,
\* another error goes on, a body that ran to its end gives Nil
catch_return(r) ==
    CASE r.status = "return" -> Ok(r.value, r.m)
      [] r.status = "ok" -> Ok(Nil, r.m)
      [] OTHER -> r

\* the history of a call's end
log_call_end(r, c, act) ==
    CASE r.status = "return" -> Logged(c.m, "exit", act, c.value)
      [] r.status = "ok" -> Logged(Logged(c.m, "end", act, Nil), "exit", act, c.value)
      [] OTHER -> Logged(c.m, "abort", act, Nil)

RECURSIVE Evaluate(_, _), Execute(_, _)

\* the loop of Interpreter::execute_block (and of Interpreter::interpret)
RECURSIVE execute_all(_, _, _)
execute_all(statements, i, m) ==
    IF i > Len(statements) THEN Ok(Nil, m)
    ELSE LET next(r) == IF r.status # "ok" THEN r
                        ELSE execute_all(statements, i + 1, r.m)
         IN next(Execute(statements[i], m))

\* Interpreter::execute_block: env is put back only when no statement failed
execute_block(statements, environment, m) ==
    LET leave(r) == IF r.status # "ok" THEN r
                    ELSE Ok(Nil, [r.m EXCEPT !.env = m.env])
    IN leave(execute_all(statements, 1, [m EXCEPT !.env = environment]))

\* impl Callable for Function: call.  The interpreter is passed by value (a
\* clone of the caller's): the caller keeps its own env whatever the body does
function_call(fid, m, arguments) ==
    LET function == m.funs[fid]
        environment == Len(m.envs) + 1
        bound == define_params(Append(m.envs, EnvironmentFrom(function.closeure)),
                               environment, function.declaration, arguments, 1)
        answer(r) == [catch_return(r) EXCEPT
                         !.m = [log_call_end(r, catch_return(r), environment) EXCEPT
                                   !.env = m.env, !.act = m.act]]
    IN IF m.fuel = 0 THEN OutOfFuel(m)
       ELSE IF ~bound.ok THEN Err(bound.err, [m EXCEPT !.envs = bound.envs])
       ELSE answer(execute_block(function.declaration.body, environment,
                       Logged([m EXCEPT !.envs = bound.envs, !.fuel = @ - 1,
                                        !.act = environment],
                              "call", environment, Nil)))

\* impl Callable for Object: call.  func.borrow_mut() is held for the whole
\* of func.borrow_mut().call(..): a call of a function object that is
\* running finds its RefCell borrowed and panics
object_call(callee, m, arguments, line) ==
    IF callee.t # "Function"
    THEN Err(interpreter_error("Can only call functions and classes.", line), m)
    ELSE IF callee.s # "" THEN native_call(callee.s, m, arguments)
    ELSE IF callee.f # 0
    THEN IF callee.f \in m.borrowed THEN Panic("already borrowed: BorrowMutError", m)
         ELSE LET e == arity_check(m.funs[callee.f].declaration, arguments) IN
              IF e # NoErr THEN Err(e, m)
              ELSE LET r == function_call(callee.f,
                                [m EXCEPT !.borrowed = @ \cup {callee.f}], arguments)
                   IN [r EXCEPT !.m.borrowed = m.borrowed]
    ELSE Ok(Nil, m)

\* Interpreter::visit_literal_expr
visit_literal_expr(expr, m) == Ok(expr.value, m)

\* Interpreter::visit_variable_expr
visit_variable_expr(expr, m) == lookup_variable(m, expr.name, expr.line)

\* Interpreter::visit_assign_expr
visit_assign_expr(expr, m) ==
    LET distance == LocalsGet(m.locals, ExprKey("Assign", expr.name, expr.line))
        assign(r) ==
            IF r.status # "ok" THEN r
            ELSE IF distance # -1
            THEN LET a == env_assign_at(r.m.envs, r.m.env, distance, expr.name, r.value) IN
                 IF a.panic THEN Panic("called Option::unwrap() on a None value", r.m)
                 ELSE Ok(r.value, [r.m EXCEPT !.envs = a.envs])
            ELSE LET a == env_assign(r.m.envs, r.m.globals, expr.name, expr.line, r.value) IN
                 IF a.ok THEN Ok(r.value, [r.m EXCEPT !.envs = a.envs])
                 ELSE Err(a.err, r.m)
    IN assign(Evaluate(expr.value, m))

\* the closure check_number_operands of visit_binary_expr
check_number_operands(v, rhs, line, m) ==
    IF is_nil(v)
    THEN IF ObjectEq(rhs, Number(0))
         THEN Err(interpreter_error("Can't divide by zero.", line), m)
         ELSE Err(interpreter_error("Operands must be numbers.", line), m)
    ELSE Ok(v, m)

\* the closure check_addition_operands of visit_binary_expr
check_addition_operands(v, line, m) ==
    IF is_nil(v)
    THEN Err(interpreter_error("Operands can be in pairs of: (String::String) (Number::Number) (String::Number) (Number::String) (Boolean::String) or (String::Boolean)", line), m)
    ELSE Ok(v, m)

\* the match on the operator of visit_binary_expr
binary_op(operator, left, right, line, m) ==
    CASE operator = "-" -> Ok(ObjectSub(left, right), m)
      [] operator = "/" -> check_number_operands(ObjectDiv(left, right), right, line, m)
      [] operator = "*" -> Ok(ObjectMul(left, right), m)
      [] operator = "+" -> check_addition_operands(ObjectAdd(left, right), line, m)
      [] operator = ">" -> Ok(Boolean(ObjectGt(left, right)), m)
      [] operator = ">=" -> Ok(Boolean(ObjectGe(left, right)), m)
      [] operator = "<" -> Ok(Boolean(ObjectLt(left, right)), m)
      [] operator = "<=" -> Ok(Boolean(ObjectLe(left, right)), m)
      [] operator = "==" -> Ok(Boolean(ObjectEq(left, right)), m)
      [] operator = "!=" -> Ok(Boolean(ObjectNe(left, right)), m)
      [] OTHER -> Err(interpreter_error("Unsupported binary operator: " \o operator, line), m)

\* Interpreter::visit_binary_expr
visit_binary_expr(expr, m) ==
    LET operands(left) ==
            IF left.status # "ok" THEN left
            ELSE LET operate(right) ==
                         IF right.status # "ok" THEN right
                         ELSE binary_op(expr.operator, left.value, right.value,
                                        expr.line, right.m)
                 IN operate(Evaluate(expr.right, left.m))
    IN operands(Evaluate(expr.left, m))

\* the iterator of visit_call_expr over the arguments: r.value is not used,
\* args are the values so far
RECURSIVE evaluate_arguments(_, _, _, _)
evaluate_arguments(arguments, i, args, m) ==
    IF i > Len(arguments) THEN [r |-> Ok(Nil, m), args |-> args]
    ELSE LET next(r) == IF r.status # "ok" THEN [r |-> r, args |-> args]
                        ELSE evaluate_arguments(arguments, i + 1, Append(args, r.value), r.m)
         IN next(Evaluate(arguments[i], m))

\* Interpreter::visit_call_expr
visit_call_expr(expr, m) ==
    LET callee(function) ==
            IF function.status # "ok" THEN function
            ELSE LET call(a) == IF a.r.status # "ok" THEN a.r
                                ELSE object_call(function.value, a.r.m, a.args, expr.line)
                 IN call(evaluate_arguments(expr.arguments, 1, <<>>, function.m))
    IN callee(Evaluate(expr.callee, m))

\* Interpreter::visit_group_expr
visit_group_expr(expr, m) == Evaluate(expr.expression, m)

\* a get_truth that treats `and` as `or`
get_truth_of_or(token_type, left) == is_truthy(left)

\* the closure get_truth of visit_logical_expr: whether the left operand is
\* the result
get_truth(token_type, left) ==
    IF token_type = "and" THEN ~is_truthy(left) ELSE is_truthy(left)

\* Interpreter::visit_logical_expr
visit_logical_expr(expr, m) ==
    LET decide(left) ==
            IF left.status # "ok" THEN left
            ELSE IF expr.operator \notin {"and", "or"}
            THEN Err(interpreter_error("Unexpected Token", expr.line), left.m)
            ELSE IF get_truth(expr.operator, left.value) THEN Ok(left.value, left.m)
            ELSE Evaluate(expr.right, left.m)
    IN decide(Evaluate(expr.left, m))

\* the match on the operator of visit_unary_expr
unary_op(operator, right, line, m) ==
    CASE operator = "-" ->
            IF right.t = "Number" THEN Ok(Number(-right.n), m)
            ELSE Err(interpreter_error("Operand must be a number", line), m)
      [] operator = "!" -> Ok(Boolean(is_nil(right)), m)
      [] OTHER -> Err(interpreter_error("Expected Number found", line), m)

\* Interpreter::visit_unary_expr
visit_unary_expr(expr, m) ==
    LET operate(right) == IF right.status # "ok" THEN right
                          ELSE unary_op(expr.operator, right.value, expr.line, right.m)
    IN operate(Evaluate(expr.right, m))

\* Interpreter::visit_get_expr, visit_set_expr, visit_super_expr,
\* visit_this_expr and visit_class_stmt: todo!()
todo(m) == Panic("not yet implemented", m)

\* Interpreter::evaluate: Expr::accept
Evaluate(expr, m) ==
    CASE expr.k = "Literal" -> visit_literal_expr(expr, m)
      [] expr.k = "Variable" -> visit_variable_expr(expr, m)
      [] expr.k = "Assign" -> visit_assign_expr(expr, m)
      [] expr.k = "Binary" -> visit_binary_expr(expr, m)
      [] expr.k = "Call" -> visit_call_expr(expr, m)
      [] expr.k = "Grouping" -> visit_group_expr(expr, m)
      [] expr.k = "Logical" -> visit_logical_expr(expr, m)
      [] expr.k = "Unary" -> visit_unary_expr(expr, m)
      [] OTHER -> todo(m)

\* Interpreter::visit_block_stmt
\* a block that would run in the environment it is entered from
visit_block_stmt_sharing(stmt, m) == execute_block(stmt.statements, m.env, m)

visit_block_stmt(stmt, m) ==
    execute_block(stmt.statements, Len(m.envs) + 1,
                  [m EXCEPT !.envs = Append(@, EnvironmentFrom(m.env))])

\* Interpreter::visit_expr_stmt
visit_expr_stmt(stmt, m) ==
    LET discard(r) == IF r.status # "ok" THEN r ELSE Ok(Nil, r.m)
    IN discard(Evaluate(stmt.expression, m))

\* Interpreter::visit_func_stmt
visit_func_stmt(stmt, m) ==
    LET fid == Len(m.funs) + 1
        funs0 == Append(m.funs, [declaration |-> stmt, closeure |-> m.env])
        d == env_define(m.envs, m.env, stmt.name, stmt.line, Function(fid, ""))
    IN IF d.ok THEN Ok(Nil, [m EXCEPT !.funs = funs0, !.envs = d.envs])
       ELSE Err(d.err, [m EXCEPT !.funs = funs0])

\* Interpreter::visit_if_stmt
visit_if_stmt(stmt, m) ==
    LET branch(c) ==
            IF c.status # "ok" THEN c
            ELSE IF is_truthy(c.value) THEN Execute(stmt.then_branch, c.m)
            ELSE IF stmt.else_branch.k # "None" THEN Execute(stmt.else_branch, c.m)
            ELSE Ok(Nil, c.m)
    IN branch(Evaluate(stmt.condition, m))

\* Interpreter::visit_print_stmt
visit_print_stmt(stmt, m) ==
    LET println(r) == IF r.status # "ok" THEN r
                      ELSE Ok(Nil, [r.m EXCEPT !.out = Append(@, Display(r.value))])
    IN println(Evaluate(stmt.expression, m))

\* Interpreter::visit_return_stmt: only a return with a value unwinds
visit_return_stmt(stmt, m) ==
    LET unwind(r) == IF r.status # "ok" THEN r
                     ELSE ReturnUnwind(r.value, Logged(r.m, "return", r.m.act, r.value))
    IN IF stmt.value.k # "None" THEN unwind(Evaluate(stmt.value, m))
       ELSE Ok(Nil, Logged(m, "return;", m.act, Nil))

\* Interpreter::visit_var_stmt
visit_var_stmt(stmt, m) ==
    LET define(r) ==
            IF r.status # "ok" THEN r
            ELSE LET d == env_define(r.m.envs, r.m.env, stmt.name, stmt.line, r.value) IN
                 IF d.ok THEN Ok(Nil, [r.m EXCEPT !.envs = d.envs])
                 ELSE Err(d.err, r.m)
    IN IF stmt.initializer.k # "None" THEN define(Evaluate(stmt.initializer, m))
       ELSE define(Ok(Nil, m))

\* Interpreter::visit_while_stmt
RECURSIVE visit_while_stmt(_, _)
visit_while_stmt(stmt, m) ==
    LET again(b) == IF b.status # "ok" THEN b ELSE visit_while_stmt(stmt, b.m)
        loop(c) ==
            IF c.status # "ok" THEN c
            ELSE IF ~is_truthy(c.value) THEN Ok(Nil, c.m)
            ELSE IF c.m.fuel = 0 THEN OutOfFuel(c.m)
            ELSE again(Execute(stmt.body, [c.m EXCEPT !.fuel = @ - 1]))
    IN loop(Evaluate(stmt.condition, m))

\* Interpreter::execute: Stmt::accept (the history keeps that a statement
\* was executed, and by which call)
Execute(stmt, m) ==
    LET entered == Logged(m, "execute", m.act, Nil) IN
    CASE stmt.k = "Block" -> visit_block_stmt(stmt, entered)
      [] stmt.k = "Expression" -> visit_expr_stmt(stmt, entered)
      [] stmt.k = "Function" -> visit_func_stmt(stmt, entered)
      [] stmt.k = "If" -> visit_if_stmt(stmt, entered)
      [] stmt.k = "Print" -> visit_print_stmt(stmt, entered)
      [] stmt.k = "Return" -> visit_return_stmt(stmt, entered)
      [] stmt.k = "Var" -> visit_var_stmt(stmt, entered)
      [] stmt.k = "While" -> visit_while_stmt(stmt, entered)
      [] OTHER -> todo(entered)

(***************************************************************************)
(* The resolver (resolver.rs).  R is the resolver together with the        *)
(* side-table of the interpreter it writes to:                             *)
(*   scopes        Vec<HashMap<String, bool>>, innermost last              *)
(*   current_func  FuncType: "None", "Function" or "Method"                *)
(*   locals        Interpreter.locals                                      *)
(* A visitor answers ok or the error, and the state it leaves behind.      *)
(***************************************************************************)
ROk(R) == [ok |-> TRUE, err |-> NoErr, R |-> R]
RErr(e, R) == [ok |-> FALSE, err |-> e, R |-> R]

\* Resolver::new
ResolverNew(locals) == [scopes |-> <<>>, current_func |-> "None", locals |-> locals]

\* Resolver::begin_scope
begin_scope(R) == [R EXCEPT !.scopes = Append(@, [x \in {} |-> FALSE])]

\* Resolver::end_scope
end_scope(R) ==
    IF Len(R.scopes) = 0
    THEN RErr(interpreter_error("ResolverError: error while ending sub-scope.", 0), R)
    ELSE ROk([R EXCEPT !.scopes = SubSeq(@, 1, Len(@) - 1)])

\* HashMap::insert on a scope
ScopeInsert(scope, name, defined) ==
    [x \in (DOMAIN scope) \cup {name} |-> IF x = name THEN defined ELSE scope[x]]

\* Resolver::declare
resolver_declare(R, name) ==
    IF Len(R.scopes) = 0 THEN ROk(R)
    ELSE IF name \in DOMAIN R.scopes[Len(R.scopes)]
    THEN RErr(interpreter_error(
                  "ResolverError: Already a variable with this name in this scope.", 0), R)
    ELSE ROk([R EXCEPT !.scopes[Len(R.scopes)] = ScopeInsert(@, name, FALSE)])

\* Resolver::define
resolver_define(R, name) ==
    IF Len(R.scopes) = 0 THEN R
    ELSE [R EXCEPT !.scopes[Len(R.scopes)] = ScopeInsert(@, name, TRUE)]

\* the scopes that contain name, as indexes of R.scopes
ScopesWith(R, name) == {i \in 1..Len(R.scopes) : name \in DOMAIN R.scopes[i]}

\* Resolver::resolve_local: the innermost scope that contains the name
resolve_local(R, kind, name, line) ==
    IF ScopesWith(R, name) = {} THEN R
    ELSE LET i == CHOOSE j \in ScopesWith(R, name) : \A l \in ScopesWith(R, name) : l <= j
             distance == Len(R.scopes) - i
         IN [R EXCEPT !.locals = interpreter_resolve(@, ExprKey(kind, name, line), distance)]

\* the loop of Resolver::resolve_func over the parameters
RECURSIVE declare_params(_, _, _)
declare_params(params, i, R) ==
    IF i > Len(params) THEN ROk(R)
    ELSE LET next(d) == IF ~d.ok THEN d
                        ELSE declare_params(params, i + 1, resolver_define(d.R, params[i]))
         IN next(resolver_declare(R, params[i]))

\* Resolver::resolve_func: opens a scope, declares and defines the
\* parameters and closes the scope; the body is not visited
resolve_func(R, func, func_type) ==
    LET closed(e) == IF ~e.ok THEN e
                     ELSE ROk([e.R EXCEPT !.current_func = R.current_func])
        declared(p) == IF ~p.ok THEN p ELSE closed(end_scope(p.R))
    IN declared(declare_params(func.params, 1,
                               begin_scope([R EXCEPT !.current_func = func_type])))

RECURSIVE ResolveStatement(_, _), ResolveExpression(_, _)

\* Resolver::resolve and Resolver::resolve_rc: the loop over statements
RECURSIVE resolve_rc(_, _, _)
resolve_rc(statements, i, R) ==
    IF i > Len(statements) THEN ROk(R)
    ELSE LET next(r) == IF ~r.ok THEN r ELSE resolve_rc(statements, i + 1, r.R)
         IN next(ResolveStatement(statements[i], R))

\* the loop of Resolver::visit_call_expr over the arguments
RECURSIVE resolve_arguments(_, _, _)
resolve_arguments(arguments, i, R) ==
    IF i > Len(arguments) THEN ROk(R)
    ELSE LET next(r) == IF ~r.ok THEN r ELSE resolve_arguments(arguments, i + 1, r.R)
         IN next(ResolveExpression(arguments[i], R))

\* the loop of Resolver::visit_class_stmt over the methods
RECURSIVE resolve_methods(_, _, _)
resolve_methods(methods, i, R) ==
    IF i > Len(methods) THEN ROk(R)
    ELSE LET next(r) == IF ~r.ok THEN r ELSE resolve_methods(methods, i + 1, r.R)
         IN next(resolve_func(R, methods[i], "Method"))

\* impl stmt::Visitor for Resolver: visit_block_stmt
r_visit_block_stmt(stmt, R) ==
    LET close(r) == IF ~r.ok THEN r ELSE end_scope(r.R)
    IN close(resolve_rc(stmt.statements, 1, begin_scope(R)))

\* impl stmt::Visitor for Resolver: visit_class_stmt
r_visit_class_stmt(stmt, R) ==
    LET close(r) == IF ~r.ok THEN r ELSE end_scope(r.R)
        methods(opened) ==
            close(resolve_methods(stmt.methods, 1,
                      [opened EXCEPT !.scopes[Len(opened.scopes)] = ScopeInsert(@, "this", TRUE)]))
        declared(d) == IF ~d.ok THEN d
                       ELSE methods(begin_scope(resolver_define(d.R, stmt.name)))
    IN declared(resolver_declare(R, stmt.name))

\* impl stmt::Visitor for Resolver: visit_expr_stmt and visit_print_stmt
r_visit_expr_stmt(stmt, R) == ResolveExpression(stmt.expression, R)

\* impl stmt::Visitor for Resolver: visit_func_stmt
r_visit_func_stmt(stmt, R) ==
    LET declared(d) == IF ~d.ok THEN d
                       ELSE resolve_func(resolver_define(d.R, stmt.name), stmt, "Function")
    IN declared(resolver_declare(R, stmt.name))

\* impl stmt::Visitor for Resolver: visit_if_stmt
r_visit_if_stmt(stmt, R) ==
    LET else_branch(t) ==
            IF ~t.ok THEN t
            ELSE IF stmt.else_branch.k # "None" THEN ResolveStatement(stmt.else_branch, t.R)
            ELSE t
        then_branch(c) == IF ~c.ok THEN c
                          ELSE else_branch(ResolveStatement(stmt.then_branch, c.R))
    IN then_branch(ResolveExpression(stmt.condition, R))

\* impl stmt::Visitor for Resolver: visit_return_stmt
\* a resolver that would let a return pass wherever it stands
r_visit_return_stmt_anywhere(stmt, R) ==
    IF stmt.value.k # "None" THEN ResolveExpression(stmt.value, R) ELSE ROk(R)

r_visit_return_stmt(stmt, R) ==
    IF R.current_func = "None"
    THEN RErr(interpreter_error("ResolverError: Can't return from top-level code.", 0), R)
    ELSE IF stmt.value.k # "None" THEN ResolveExpression(stmt.value, R)
    ELSE ROk(R)

\* impl stmt::Visitor for Resolver: visit_var_stmt
r_visit_var_stmt(stmt, R) ==
    LET define(r) == IF ~r.ok THEN r ELSE ROk(resolver_define(r.R, stmt.name))
        declared(d) ==
            IF ~d.ok THEN d
            ELSE IF stmt.initializer.k # "None"
            THEN define(ResolveExpression(stmt.initializer, d.R))
            ELSE define(d)
    IN declared(resolver_declare(R, stmt.name))

\* impl stmt::Visitor for Resolver: visit_while_stmt
r_visit_while_stmt(stmt, R) ==
    LET body(c) == IF ~c.ok THEN c ELSE ResolveStatement(stmt.body, c.R)
    IN body(ResolveExpression(stmt.condition, R))

\* Resolver::resolve_statement: Stmt::accept
ResolveStatement(stmt, R) ==
    CASE stmt.k = "Block" -> r_visit_block_stmt(stmt, R)
      [] stmt.k = "Class" -> r_visit_class_stmt(stmt, R)
      [] stmt.k = "Expression" -> r_visit_expr_stmt(stmt, R)
      [] stmt.k = "Function" -> r_visit_func_stmt(stmt, R)
      [] stmt.k = "If" -> r_visit_if_stmt(stmt, R)
      [] stmt.k = "Print" -> r_visit_expr_stmt(stmt, R)
      [] stmt.k = "Return" -> r_visit_return_stmt(stmt, R)
      [] stmt.k = "Var" -> r_visit_var_stmt(stmt, R)
      [] stmt.k = "While" -> r_visit_while_stmt(stmt, R)

\* impl expr::Visitor for Resolver: visit_assign_expr
r_visit_assign_expr(expr, R) ==
    LET local(r) == IF ~r.ok THEN r
                    ELSE ROk(resolve_local(r.R, "Assign", expr.name, expr.line))
    IN local(ResolveExpression(expr.value, R))

\* impl expr::Visitor for Resolver: visit_binary_expr and visit_logical_expr
r_visit_binary_expr(expr, R) ==
    LET right(l) == IF ~l.ok THEN l ELSE ResolveExpression(expr.right, l.R)
    IN right(ResolveExpression(expr.left, R))

\* impl expr::Visitor for Resolver: visit_call_expr
r_visit_call_expr(expr, R) ==
    LET arguments(c) == IF ~c.ok THEN c ELSE resolve_arguments(expr.arguments, 1, c.R)
    IN arguments(ResolveExpression(expr.callee, R))

\* impl expr::Visitor for Resolver: visit_set_expr
r_visit_set_expr(expr, R) ==
    LET object(v) == IF ~v.ok THEN v ELSE ResolveExpression(expr.object, v.R)
    IN object(ResolveExpression(expr.value, R))

\* impl expr::Visitor for Resolver: visit_variable_expr
r_visit_variable_expr(expr, R) ==
    IF /\ Len(R.scopes) # 0
       /\ expr.name \in DOMAIN R.scopes[Len(R.scopes)]
       /\ R.scopes[Len(R.scopes)][expr.name] = FALSE
    THEN RErr(interpreter_error(
                  "ResolverError: cannot read local variable in its own initializer.",
                  expr.line), R)
    ELSE ROk(resolve_local(R, "Variable", expr.name, expr.line))

\* Resolver::resolve_expression: Expr::accept
ResolveExpression(expr, R) ==
    CASE expr.k = "Assign" -> r_visit_assign_expr(expr, R)
      [] expr.k = "Binary" -> r_visit_binary_expr(expr, R)
      [] expr.k = "Call" -> r_visit_call_expr(expr, R)
      [] expr.k = "Get" -> ResolveExpression(expr.object, R)
      [] expr.k = "Grouping" -> ResolveExpression(expr.expression, R)
      [] expr.k = "Literal" -> ROk(R)
      [] expr.k = "Logical" -> r_visit_binary_expr(expr, R)
      [] expr.k = "Set" -> r_visit_set_expr(expr, R)
      [] expr.k = "This" -> ROk(resolve_local(R, "This", "this", expr.line))
      [] expr.k = "Unary" -> ResolveExpression(expr.right, R)
      [] expr.k = "Variable" -> r_visit_variable_expr(expr, R)

(***************************************************************************)
(* The scanner (scanner.rs).  A token is a record of its type, its lexeme, *)
(* its literal (Nil for None) and its line.                                *)
(***************************************************************************)
Token(type, lexeme, literal, line) ==
    [type |-> type, lexeme |-> lexeme, literal |-> literal, line |-> line]

\* the arms of the match of Scanner::scan_token that add a token of one or
\* of two characters
SingleTokens ==
    "(" :> "LEFT_PAREN" @@ ")" :> "RIGHT_PAREN" @@ "{" :> "LEFT_BRACE" @@ "}" :> "RIGHT_BRACE"
    @@ "," :> "COMMA" @@ "." :> "DOT" @@ "-" :> "MINUS" @@ "+" :> "PLUS"
    @@ ";" :> "SEMICOLON" @@ "*" :> "STAR" @@ "!" :> "BANG" @@ "=" :> "EQUAL"
    @@ "<" :> "LESS" @@ ">" :> "GREATER" @@ "/" :> "SLASH"

DoubleTokens ==
    "!" :> "BANG_EQUAL" @@ "=" :> "EQUAL_EQUAL" @@ "<" :> "LESS_EQUAL" @@ ">" :> "GREATER_EQUAL"

\* Scanner::keyword
Keywords ==
    "and" :> "AND" @@ "class" :> "CLASS" @@ "else" :> "ELSE" @@ "false" :> "FALSE"
    @@ "for" :> "FOR" @@ "fun" :> "FUN" @@ "if" :> "IF" @@ "nil" :> "NIL" @@ "or" :> "OR"
    @@ "print" :> "PRINT" @@ "return" :> "RETURN" @@ "super" :> "SUPER" @@ "this" :> "THIS"
    @@ "true" :> "TRUE" @@ "var" :> "VAR" @@ "while" :> "WHILE"

keyword(text) == IF text \in DOMAIN Keywords THEN Keywords[text] ELSE "IDENTIFIER"

\* the digits, and the value of each
Digits == "0" :> 0 @@ "1" :> 1 @@ "2" :> 2 @@ "3" :> 3 @@ "4" :> 4
          @@ "5" :> 5 @@ "6" :> 6 @@ "7" :> 7 @@ "8" :> 8 @@ "9" :> 9

\* the characters Scanner::is_alpha accepts
Letters ==
    {"a", "b", "c", "d", "e", "f", "g", "h", "i", "j", "k", "l", "m", "n", "o", "p", "q",
     "r", "s", "t", "u", "v", "w", "x", "y", "z", "A", "B", "C", "D", "E", "F", "G", "H",
     "I", "J", "K", "L", "M", "N", "O", "P", "Q", "R", "S", "T", "U", "V", "W", "X", "Y",
     "Z", "_"}

is_digit(ch) == ch \in DOMAIN Digits
is_alpha(ch) == ch \in Letters
is_alphanumeric(ch) == is_alpha(ch) \/ is_digit(ch)

\* source.get(from..to) as a string: the characters from .. to - 1, which
\* count from 1 here
RECURSIVE Text(_, _, _)
Text(source, from, to) ==
    IF from >= to THEN "" ELSE source[from] \o Text(source, from + 1, to)

\* str::parse::<f64> on a lexeme of digits (the texts have no fraction)
RECURSIVE ParseNumber(_, _, _)
ParseNumber(source, from, to) ==
    IF from >= to THEN 0
    ELSE IF source[to - 1] = "." THEN ParseNumber(source, from, to - 1)
    ELSE ParseNumber(source, from, to - 1) * 10 + Digits[source[to - 1]]

\* S is the Scanner; start and current count from 1 here
ScannerNew(source) ==
    [source |-> source, tokens |-> <<>>, start |-> 1, current |-> 1, line |-> 1]

SOk(S) == [status |-> "ok", S |-> S]
SPanic(S) == [status |-> "panic", S |-> S]

scanner_is_at_end(S) == S.current > Len(S.source)
scanner_advance(S) == [S EXCEPT !.current = @ + 1]

\* Scanner::peek and peek_next: "" stands for the character NUL
scanner_peek(S) == IF scanner_is_at_end(S) THEN "" ELSE S.source[S.current]
peek_next(S) == IF S.current + 1 > Len(S.source) THEN "" ELSE S.source[S.current + 1]

\* Scanner::match_ answers whether the next character is ch; the scanner is
\* then scanner_advance(S)
scanner_match(S, ch) == ~scanner_is_at_end(S) /\ S.source[S.current] = ch

\* Scanner::add_token_
add_token_(S, type, literal) ==
    [S EXCEPT !.tokens = Append(@, Token(type, Text(S.source, S.start, S.current),
                                         literal, S.line))]

\* Scanner::add_token
add_token(S, type) == add_token_(S, type, Nil)

\* a comment that would run to the end of the source
comment_loop_to_end(S) == [S EXCEPT !.current = Len(S.source) + 1]

\* the loop of scan_token over a comment
RECURSIVE comment_loop(_)
comment_loop(S) ==
    IF scanner_peek(S) # "\n" /\ ~scanner_is_at_end(S) THEN comment_loop(scanner_advance(S))
    ELSE S

\* the loop of Scanner::string
RECURSIVE string_loop(_)
string_loop(S) ==
    IF scanner_peek(S) # "\"" /\ ~scanner_is_at_end(S)
    THEN string_loop(scanner_advance(
             IF scanner_peek(S) = "\n" THEN [S EXCEPT !.line = @ + 1] ELSE S))
    ELSE S

\* Scanner::string: panic stands for Err(()), which scan_token turns into one
scanner_string(S) ==
    LET closing(E) ==
            IF scanner_is_at_end(E) THEN SPanic(E)
            ELSE SOk(add_token_(scanner_advance(E), "STRING",
                                String(Text(E.source, E.start + 1, E.current))))
    IN closing(string_loop(S))

\* the loops of Scanner::number and of Scanner::identifier
RECURSIVE digits_loop(_)
digits_loop(S) == IF is_digit(scanner_peek(S)) THEN digits_loop(scanner_advance(S)) ELSE S

RECURSIVE alphanumeric_loop(_)
alphanumeric_loop(S) ==
    IF scanner_peek(S) # "" /\ is_alphanumeric(scanner_peek(S))
    THEN alphanumeric_loop(scanner_advance(S))
    ELSE S

\* Scanner::number
scanner_number(S) ==
    LET fraction(E) ==
            IF scanner_peek(E) = "." /\ is_digit(peek_next(E))
            THEN digits_loop(scanner_advance(E))
            ELSE E
        value(E) == add_token_(E, "NUMBER", Number(ParseNumber(E.source, E.start, E.current)))
    IN value(fraction(digits_loop(S)))

\* Scanner::identifier
scanner_identifier(S) ==
    LET named(E) == add_token(E, keyword(Text(E.source, E.start, E.current)))
    IN named(alphanumeric_loop(S))

\* Scanner::scan_token: S is the scanner after its advance, ch the character
scan_token(S, ch) ==
    CASE ch \in DOMAIN DoubleTokens /\ scanner_match(S, "=") ->
            SOk(add_token(scanner_advance(S), DoubleTokens[ch]))
      [] ch = "/" /\ scanner_match(S, "/") -> SOk(comment_loop(scanner_advance(S)))
      [] ch = "\n" -> SOk([S EXCEPT !.line = @ + 1])
      [] ch \in {" ", "\r", "\t"} -> SOk(S)
      [] ch = "\"" -> scanner_string(S)
      [] is_digit(ch) -> SOk(scanner_number(S))
      [] is_alpha(ch) -> SOk(scanner_identifier(S))
      [] OTHER -> IF ch \in DOMAIN SingleTokens THEN SOk(add_token(S, SingleTokens[ch]))
                  ELSE SPanic(S)

\* the loop of Scanner::scan_tokens
RECURSIVE scan_loop(_)
scan_loop(S) ==
    IF ~scanner_is_at_end(S)
    THEN LET scanned(r) == IF r.status # "ok" THEN r ELSE scan_loop(r.S)
         IN scanned(scan_token(scanner_advance([S EXCEPT !.start = S.current]),
                               S.source[S.current]))
    ELSE SOk(S)

\* Scanner::new(source).scan_tokens(): S.tokens of the answer are the tokens
scan_tokens(source) ==
    LET ended(r) ==
            IF r.status # "ok" THEN r
            ELSE SOk([r.S EXCEPT !.tokens = Append(@, Token("EOF", "", Nil, r.S.line))])
    IN ended(scan_loop(ScannerNew(source)))

\* the token the scanner adds for a lexeme of the programs given in tokens:
\* an operator, a number of one digit, a keyword or an identifier
TokenOf(lexeme, line) ==
    CASE lexeme \in DOMAIN SingleTokens -> Token(SingleTokens[lexeme], lexeme, Nil, line)
      [] lexeme \in {c \o "=" : c \in DOMAIN DoubleTokens} ->
            Token(CHOOSE t \in {DoubleTokens[c] : c \in {d \in DOMAIN DoubleTokens :
                                                            d \o "=" = lexeme}} : TRUE,
                  lexeme, Nil, line)
      [] lexeme \in DOMAIN Digits -> Token("NUMBER", lexeme, Number(Digits[lexeme]), line)
      [] OTHER -> Token(keyword(lexeme), lexeme, Nil, line)

\* the tokens of a text of these lexemes, one on a line, and the EOF
TokensOf(words) ==
    [i \in 1..Len(words) |-> TokenOf(words[i], i)]
    \o <<Token("EOF", "", Nil, Len(words) + 1)>>

(***************************************************************************)
(* The parser (parser.rs) on tokens.  P is the Parser: its tokens and its  *)
(* current, which counts from 1 here.  A function of the parser answers    *)
(* POk(node, P), PErr(error, P) or, when it panics, PPanic.                *)
(***************************************************************************)
ParserNew(tokens) == [tokens |-> tokens, current |-> 1]

POk(node, P) == [status |-> "ok", node |-> node, P |-> P, err |-> NoErr]
PErr(err, P) == [status |-> "error", node |-> NoStmt, P |-> P, err |-> err]
PPanic(message, P) ==
    [status |-> "panic", node |-> NoStmt, P |-> P, err |-> LoxError("panic", 0, message)]

peek(P) == P.tokens[P.current]
parser_is_at_end(P) == peek(P).type = "EOF"
check(P, type) == ~parser_is_at_end(P) /\ peek(P).type = type
advance(P) == IF ~parser_is_at_end(P) THEN [P EXCEPT !.current = @ + 1] ELSE P
previous(P) == P.tokens[P.current - 1]

\* Parser::match_ answers whether peek has one of the types; the parser is
\* then advance(P)
match_(P, types) == \E type \in types : check(P, type)

\* Parser::error
parser_error(token, message) ==
    [kind |-> "ParseError", line |-> token.line, msg |-> message,
     where_ |-> IF token.type = "EOF" THEN " at end" ELSE " at '" \o token.lexeme \o "'"]

\* Parser::consume: the node of the answer is the token
consume(P, type, message) ==
    IF check(P, type) THEN POk(peek(P), advance(P))
    ELSE PErr(parser_error(peek(P), message), P)

\* the ? of the parser: an answer that is not Ok is the answer of the caller,
\* an Ok answer goes on with the rest of the function
Try(r, rest(_)) == IF r.status # "ok" THEN r ELSE rest(r)

\* the token types of the operators of or, and, equality, comparison, term
\* and factor, the functions of mod expression that parse a left-associative
\* chain of operands of the next function
BinaryLevels ==
    << {"OR"}, {"AND"}, {"BANG_EQUAL", "EQUAL_EQUAL"},
       {"GREATER", "GREATER_EQUAL", "LESS", "LESS_EQUAL"},
       {"MINUS", "PLUS"}, {"SLASH", "STAR"} >>

RECURSIVE expression_assignment(_), binary_level(_, _), binary_level_loop(_, _, _),
          expression_unary(_), call_loop(_, _), finish_call_loop(_, _),
          Parser_declaration(_), Parser_statement(_), block_loop(_, _),
          parameters_loop(_, _), parse_loop(_, _)

\* expression::primary
expression_primary(P) ==
    CASE check(P, "FALSE") -> POk(Literal(Boolean(FALSE)), advance(P))
      [] check(P, "TRUE") -> POk(Literal(Boolean(TRUE)), advance(P))
      [] check(P, "NIL") -> POk(Literal(Nil), advance(P))
      [] match_(P, {"NUMBER", "STRING"}) -> POk(Literal(peek(P).literal), advance(P))
      [] check(P, "IDENTIFIER") -> POk(Variable(peek(P).lexeme, peek(P).line), advance(P))
      [] check(P, "LEFT_PAREN") ->
            Try(expression_assignment(advance(P)), LAMBDA e :
            Try(consume(e.P, "RIGHT_PAREN", "Expect ')' after expression."), LAMBDA c :
            POk(Grouping(e.node), c.P)))
      [] OTHER -> PPanic("Expected expression.", P)

\* the loop of expression::finish_call over the arguments
finish_call_loop(arguments, P) ==
    Try(expression_assignment(P), LAMBDA e :
    IF check(e.P, "COMMA") THEN finish_call_loop(Append(arguments, e.node), advance(e.P))
    ELSE POk(Append(arguments, e.node), e.P))

\* expression::finish_call
finish_call(P, callee) ==
    Try(IF ~check(P, "RIGHT_PAREN") THEN finish_call_loop(<<>>, P) ELSE POk(<<>>, P),
        LAMBDA arguments :
    Try(consume(arguments.P, "RIGHT_PAREN", "Expected ')' after arguments."), LAMBDA paren :
    POk(Call(callee, paren.node.line, arguments.node), paren.P)))

\* the loop of expression::call
call_loop(expr, P) ==
    IF check(P, "LEFT_PAREN")
    THEN Try(finish_call(advance(P), expr), LAMBDA c : call_loop(c.node, c.P))
    ELSE POk(expr, P)

\* expression::call
expression_call(P) == Try(expression_primary(P), LAMBDA e : call_loop(e.node, e.P))

\* expression::unary
expression_unary(P) ==
    IF match_(P, {"BANG", "MINUS"})
    THEN Try(expression_unary(advance(P)), LAMBDA right :
         POk(Unary(peek(P).lexeme, peek(P).line, right.node), right.P))
    ELSE expression_call(P)

\* the while loop of a level: or and and build a Logical, the others a Binary
binary_level_loop(level, expression, P) ==
    IF match_(P, BinaryLevels[level])
    THEN Try(binary_level(level + 1, advance(P)), LAMBDA right :
         binary_level_loop(level,
             IF level <= 2
             THEN Logical(expression, peek(P).lexeme, peek(P).line, right.node)
             ELSE Binary(expression, peek(P).lexeme, peek(P).line, right.node),
             right.P))
    ELSE POk(expression, P)

\* expression::or (level 1) down to expression::factor (level 6)
binary_level(level, P) ==
    IF level > Len(BinaryLevels) THEN expression_unary(P)
    ELSE Try(binary_level(level + 1, P), LAMBDA left :
         binary_level_loop(level, left.node, left.P))

expression_or(P) == binary_level(1, P)

\* expression::assignment, which is Parser::expression
expression_assignment(P) ==
    Try(expression_or(P), LAMBDA exp :
    IF check(exp.P, "EQUAL")
    THEN Try(expression_assignment(advance(exp.P)), LAMBDA value :
         IF exp.node.k = "Variable"
         THEN POk(Assign(exp.node.name, exp.node.line, value.node), value.P)
         ELSE PErr(parser_error(peek(exp.P), "Invalid assignment target."), value.P))
    ELSE exp)

\* statement::print
statement_print(P) ==
    Try(expression_assignment(P), LAMBDA value :
    Try(consume(value.P, "SEMICOLON", "Expect ';' after value."), LAMBDA c :
    POk(PrintStmt(value.node), c.P)))

\* statement::expression
statement_expression(P) ==
    Try(expression_assignment(P), LAMBDA expr :
    Try(consume(expr.P, "SEMICOLON", "Expect ';' after expression."), LAMBDA c :
    POk(ExpressionStmt(expr.node), c.P)))

\* statement::var_declaration
statement_var_declaration(P) ==
    Try(consume(P, "IDENTIFIER", "Expect variable name."), LAMBDA name :
    Try(IF check(name.P, "EQUAL") THEN expression_assignment(advance(name.P))
        ELSE POk(NoExpr, name.P), LAMBDA initializer :
    Try(consume(initializer.P, "SEMICOLON", "Expect ';' after variable declaration."),
        LAMBDA c :
    POk(VarStmt(name.node.lexeme, name.node.line, initializer.node), c.P))))

\* the loop of statement::block
block_loop(statements, P) ==
    IF ~check(P, "RIGHT_BRACE") /\ ~parser_is_at_end(P)
    THEN Try(Parser_declaration(P), LAMBDA d : block_loop(Append(statements, d.node), d.P))
    ELSE POk(statements, P)

\* statement::block: the node is the sequence of the statements
statement_block(P) ==
    Try(block_loop(<<>>, P), LAMBDA statements :
    Try(consume(statements.P, "RIGHT_BRACE", "Expect '}' after block."), LAMBDA c :
    POk(statements.node, c.P)))

\* statement::if_statement
statement_if_statement(P) ==
    Try(consume(P, "LEFT_PAREN", "Expect '(' after if."), LAMBDA open :
    Try(expression_assignment(open.P), LAMBDA condition :
    Try(consume(condition.P, "RIGHT_PAREN", "Expect ')' after if condition."), LAMBDA close :
    Try(Parser_statement(close.P), LAMBDA then_branch :
    IF check(then_branch.P, "ELSE")
    THEN Try(Parser_statement(advance(then_branch.P)), LAMBDA else_branch :
         POk(IfStmt(condition.node, then_branch.node, else_branch.node), else_branch.P))
    ELSE POk(IfStmt(condition.node, then_branch.node, NoStmt), then_branch.P)))))

\* statement::while_statement
statement_while_statement(P) ==
    Try(consume(P, "LEFT_PAREN", "Expect '(' after if."), LAMBDA open :
    Try(expression_assignment(open.P), LAMBDA condition :
    Try(consume(condition.P, "RIGHT_PAREN", "Expect ')' after if condition."), LAMBDA close :
    Try(Parser_statement(close.P), LAMBDA body :
    POk(WhileStmt(condition.node, body.node), body.P)))))

\* statement::for_statement, lines 443-465: the statement the clauses and the
\* body are put together to (NoStmt and NoExpr are the None of a clause)
for_desugar(initializer, condition, increment, body) ==
    LET with_increment == IF increment.k # "None"
                          THEN BlockStmt(<<body, ExpressionStmt(increment)>>)
                          ELSE body
        loop == WhileStmt(IF condition.k = "None" THEN Literal(Boolean(TRUE)) ELSE condition,
                          with_increment)
    IN IF initializer.k # "None" THEN BlockStmt(<<initializer, loop>>) ELSE loop

\* statement::for_statement
statement_for_statement(P) ==
    Try(consume(P, "LEFT_PAREN", "Expect '(' after for."), LAMBDA open :
    Try(CASE check(open.P, "SEMICOLON") -> POk(NoStmt, advance(open.P))
          [] check(open.P, "VAR") -> statement_var_declaration(advance(open.P))
          [] OTHER -> statement_expression(open.P), LAMBDA initializer :
    Try(IF ~check(initializer.P, "SEMICOLON") THEN expression_assignment(initializer.P)
        ELSE POk(NoExpr, advance(initializer.P)), LAMBDA condition :
    Try(consume(condition.P, "SEMICOLON", "Expect ';' after loop condition."), LAMBDA semi :
    Try(IF ~check(semi.P, "RIGHT_PAREN") THEN expression_assignment(semi.P)
        ELSE POk(NoExpr, advance(semi.P)), LAMBDA increment :
    Try(consume(increment.P, "RIGHT_PAREN", "Expect ')' after for clauses."), LAMBDA close :
    Try(Parser_statement(close.P), LAMBDA body :
    POk(for_desugar(initializer.node, condition.node, increment.node, body.node),
        body.P))))))))

\* the loop of statement::function_definition over the parameters
parameters_loop(parameters, P) ==
    Try(consume(P, "IDENTIFIER", "Expect parameter name."), LAMBDA name :
    IF check(name.P, "COMMA")
    THEN parameters_loop(Append(parameters, name.node.lexeme), advance(name.P))
    ELSE POk(Append(parameters, name.node.lexeme), name.P))

\* statement::function_definition
statement_function_definition(P, kind) ==
    Try(consume(P, "IDENTIFIER", "Expect " \o kind \o " name."), LAMBDA name :
    Try(consume(name.P, "LEFT_PAREN", "Expect '(' after function name."), LAMBDA open :
    Try(IF ~check(open.P, "RIGHT_PAREN") THEN parameters_loop(<<>>, open.P)
        ELSE POk(<<>>, open.P), LAMBDA parameters :
    Try(consume(parameters.P, "RIGHT_PAREN", "Expect ')' after parameters."), LAMBDA close :
    Try(consume(close.P, "LEFT_BRACE", "Expect '{' before " \o kind \o " body."),
        LAMBDA brace :
    Try(statement_block(brace.P), LAMBDA body :
    POk(FunctionStmt(name.node.lexeme, name.node.line, parameters.node, body.node),
        body.P)))))))

\* statement::return_statement: P is the parser after the keyword
statement_return_statement(P) ==
    Try(IF ~check(P, "SEMICOLON") THEN expression_assignment(P) ELSE POk(NoExpr, P),
        LAMBDA value :
    Try(consume(value.P, "SEMICOLON", "Expect ';' after return value."), LAMBDA c :
    POk(ReturnStmt(previous(P).line, value.node), c.P)))

\* Parser::statement
Parser_statement(P) ==
    CASE check(P, "PRINT") -> statement_print(advance(P))
      [] check(P, "LEFT_BRACE") ->
            Try(statement_block(advance(P)), LAMBDA b : POk(BlockStmt(b.node), b.P))
      [] check(P, "IF") -> statement_if_statement(advance(P))
      [] check(P, "WHILE") -> statement_while_statement(advance(P))
      [] check(P, "FOR") -> statement_for_statement(advance(P))
      [] check(P, "FUN") -> statement_function_definition(advance(P), "function")
      [] check(P, "RETURN") -> statement_return_statement(advance(P))
      [] OTHER -> statement_expression(P)

\* Parser::declaration
Parser_declaration(P) ==
    IF check(P, "VAR") THEN statement_var_declaration(advance(P)) ELSE Parser_statement(P)

\* the loop of Parser::parse
parse_loop(statements, P) ==
    IF ~parser_is_at_end(P)
    THEN Try(Parser_declaration(P), LAMBDA d : parse_loop(Append(statements, d.node), d.P))
    ELSE POk(statements, P)

\* Parser::new(tokens).parse(): the node is the sequence of the statements
Parser_parse(tokens) == parse_loop(<<>>, ParserNew(tokens))

(***************************************************************************)
(* The parser (parser.rs), as far as the pipeline needs it here: which     *)
(* programs it turns into statements.  A program is given as the           *)
(* statements its text denotes.  The parser has no production for a class  *)
(* declaration or for `this` (Parser::statement and expression::primary    *)
(* have no branch for CLASS and THIS: primary panics), and none for a      *)
(* property access (expression::call only loops on LEFT_PAREN, so the DOT  *)
(* after the object is left for a consume that fails with a ParseError).   *)
(* Tokens are read left to right: the first such construct decides.        *)
(***************************************************************************)
RECURSIVE parse_expr(_), parse_stmt(_)

\* the first outcome other than "ok" of a sequence of outcomes
FirstFailure(outcomes) ==
    IF \A i \in DOMAIN outcomes : outcomes[i] = "ok" THEN "ok"
    ELSE outcomes[CHOOSE i \in DOMAIN outcomes :
                      /\ outcomes[i] # "ok"
                      /\ \A j \in DOMAIN outcomes : j < i => outcomes[j] = "ok"]

\* expression::assignment down to expression::primary
parse_expr(e) ==
    CASE e.k \in {"Literal", "Variable", "None"} -> "ok"
      [] e.k = "Assign" -> parse_expr(e.value)
      [] e.k = "Unary" -> parse_expr(e.right)
      [] e.k \in {"Binary", "Logical"} -> FirstFailure(<<parse_expr(e.left), parse_expr(e.right)>>)
      [] e.k = "Grouping" -> parse_expr(e.expression)
      [] e.k = "Call" ->
            FirstFailure(<<parse_expr(e.callee)>> \o
                         [i \in DOMAIN e.arguments |-> parse_expr(e.arguments[i])])
      [] e.k \in {"Get", "Set"} -> FirstFailure(<<parse_expr(e.object), "ParseError">>)
      [] e.k = "This" -> "panic"

\* Parser::declaration and Parser::statement
parse_stmt(s) ==
    CASE s.k = "None" -> "ok"
      [] s.k \in {"Expression", "Print"} -> parse_expr(s.expression)
      [] s.k = "Var" -> parse_expr(s.initializer)
      [] s.k = "Block" -> FirstFailure([i \in DOMAIN s.statements |-> parse_stmt(s.statements[i])])
      [] s.k = "If" ->
            FirstFailure(<<parse_expr(s.condition), parse_stmt(s.then_branch),
                           parse_stmt(s.else_branch)>>)
      [] s.k = "While" -> FirstFailure(<<parse_expr(s.condition), parse_stmt(s.body)>>)
      [] s.k = "Function" -> FirstFailure([i \in DOMAIN s.body |-> parse_stmt(s.body[i])])
      [] s.k = "Return" -> parse_expr(s.value)
      [] s.k = "Class" -> "panic"

\* Parser::parse: "ok", "ParseError" or "panic"
parse(program) == FirstFailure([i \in DOMAIN program |-> parse_stmt(program[i])])

(***************************************************************************)
(* The programs the model runs.  A source names a family of programs and   *)
(* its parameters: a and b are literal values, k and j small numbers, op   *)
(* an operator, and oneline tells whether the text is written on one line  *)
(* (every token on line 1) or one statement a line.                        *)
(***************************************************************************)
Numbers == {Number(i) : i \in 0..MaxNum}
Literals == {Nil, Boolean(FALSE), Boolean(TRUE), String(""), String("a")} \cup Numbers

Source(family, a, b, k, j, op, oneline) ==
    [family |-> family, a |-> a, b |-> b, k |-> k, j |-> j, op |-> op, oneline |-> oneline]

Ln(oneline, n) == IF oneline THEN 1 ELSE n

\* fun make() { var i = a; fun inc() { i = i + 1; return i; } return inc; }
\* var c = make(); print c(); print c(); print c();
Counter(a, o) ==
    << FunctionStmt("make", Ln(o, 1), <<>>,
         << VarStmt("i", Ln(o, 2), Literal(a)),
            FunctionStmt("inc", Ln(o, 3), <<>>,
              << ExpressionStmt(Assign("i", Ln(o, 3),
                     Binary(Variable("i", Ln(o, 3)), "+", Ln(o, 3), Literal(Number(1))))),
                 ReturnStmt(Ln(o, 3), Variable("i", Ln(o, 3))) >>),
            ReturnStmt(Ln(o, 4), Variable("inc", Ln(o, 4))) >>),
       VarStmt("c", Ln(o, 5), Call(Variable("make", Ln(o, 5)), Ln(o, 5), <<>>)),
       PrintStmt(Call(Variable("c", Ln(o, 6)), Ln(o, 6), <<>>)),
       PrintStmt(Call(Variable("c", Ln(o, 7)), Ln(o, 7), <<>>)),
       PrintStmt(Call(Variable("c", Ln(o, 8)), Ln(o, 8), <<>>)) >>

\* fun sub(p, q) { return p - q; } print sub(a, b);
Params(a, b, o) ==
    << FunctionStmt("sub", Ln(o, 1), <<"p", "q">>,
         << ReturnStmt(Ln(o, 1),
                Binary(Variable("p", Ln(o, 1)), "-", Ln(o, 1), Variable("q", Ln(o, 1)))) >>),
       PrintStmt(Call(Variable("sub", Ln(o, 2)), Ln(o, 2), <<Literal(a), Literal(b)>>)) >>

\* var p = a; fun id(p) { return p; } print id(b);
ParamsGlobal(a, b, o) ==
    << VarStmt("p", Ln(o, 1), Literal(a)),
       FunctionStmt("id", Ln(o, 2), <<"p">>, << ReturnStmt(Ln(o, 2), Variable("p", Ln(o, 2))) >>),
       PrintStmt(Call(Variable("id", Ln(o, 3)), Ln(o, 3), <<Literal(b)>>)) >>

\* fun count(n) { if (n <= 0) return 0; return 1 + count(n - 1); } print count(a);
Recursion(a, o) ==
    << FunctionStmt("count", Ln(o, 1), <<"n">>,
         << IfStmt(Binary(Variable("n", Ln(o, 1)), "<=", Ln(o, 1), Literal(Number(0))),
                   ReturnStmt(Ln(o, 1), Literal(Number(0))), NoStmt),
            ReturnStmt(Ln(o, 2),
                Binary(Literal(Number(1)), "+", Ln(o, 2),
                       Call(Variable("count", Ln(o, 2)), Ln(o, 2),
                            <<Binary(Variable("n", Ln(o, 2)), "-", Ln(o, 2),
                                     Literal(Number(1)))>>))) >>),
       PrintStmt(Call(Variable("count", Ln(o, 3)), Ln(o, 3), <<Literal(a)>>)) >>

\* var n = a; fun count() { if (n <= 0) return 0; n = n - 1; return 1 + count(); }
\* print count();
RecursionGlobal(a) ==
    << VarStmt("n", 1, Literal(a)),
       FunctionStmt("count", 1, <<>>,
         << IfStmt(Binary(Variable("n", 1), "<=", 1, Literal(Number(0))),
                   ReturnStmt(1, Literal(Number(0))), NoStmt),
            ExpressionStmt(Assign("n", 1,
                Binary(Variable("n", 1), "-", 1, Literal(Number(1))))),
            ReturnStmt(1, Binary(Literal(Number(1)), "+", 1,
                                 Call(Variable("count", 1), 1, <<>>))) >>),
       PrintStmt(Call(Variable("count", 1), 1, <<>>)) >>

ShowDecl(name, line) ==
    FunctionStmt(name, line, <<>>, << PrintStmt(Variable("a", line)) >>)

\* var a = "global"; { fun show() { print a; } var a = "local"; show(); }
ShowBlock(o) ==
    << VarStmt("a", Ln(o, 1), Literal(String("global"))),
       BlockStmt(<< ShowDecl("show", Ln(o, 2)),
                    VarStmt("a", Ln(o, 3), Literal(String("local"))),
                    ExpressionStmt(Call(Variable("show", Ln(o, 4)), Ln(o, 4), <<>>)) >>) >>

\* var a = "global"; fun show() { print a; } { var a = "local"; show(); }
ShowGlobal(o) ==
    << VarStmt("a", Ln(o, 1), Literal(String("global"))),
       ShowDecl("show", Ln(o, 2)),
       BlockStmt(<< VarStmt("a", Ln(o, 3), Literal(String("local"))),
                    ExpressionStmt(Call(Variable("show", Ln(o, 4)), Ln(o, 4), <<>>)) >>) >>

\* var a = "global"; fun show() { print a; } { var a = "local"; print a; show(); }
ShowCaller(o) ==
    << VarStmt("a", Ln(o, 1), Literal(String("global"))),
       ShowDecl("show", Ln(o, 2)),
       BlockStmt(<< VarStmt("a", Ln(o, 3), Literal(String("local"))),
                    PrintStmt(Variable("a", Ln(o, 4))),
                    ExpressionStmt(Call(Variable("show", Ln(o, 5)), Ln(o, 5), <<>>)) >>) >>

\* { var a = "outer"; fun show() { print a; } show(); }
ShowLocal(o) ==
    << BlockStmt(<< VarStmt("a", Ln(o, 1), Literal(String("outer"))),
                    ShowDecl("show", Ln(o, 2)),
                    ExpressionStmt(Call(Variable("show", Ln(o, 3)), Ln(o, 3), <<>>)) >>) >>

\* fun f() { while (true) { if (true) { return a; } print "no"; } print "no"; }
\* print f();
ReturnLoop(a) ==
    << FunctionStmt("f", 1, <<>>,
         << WhileStmt(Literal(Boolean(TRUE)),
                BlockStmt(<< IfStmt(Literal(Boolean(TRUE)),
                                    BlockStmt(<< ReturnStmt(1, Literal(a)) >>), NoStmt),
                             PrintStmt(Literal(String("no"))) >>)),
            PrintStmt(Literal(String("no"))) >>),
       PrintStmt(Call(Variable("f", 1), 1, <<>>)) >>

\* fun inner() { { return a; } print "no"; }
\* fun outer() { print inner(); print "outer"; return b; print "no"; }
\* print outer();
ReturnNested(a, b) ==
    << FunctionStmt("inner", 1, <<>>,
         << BlockStmt(<< ReturnStmt(1, Literal(a)) >>), PrintStmt(Literal(String("no"))) >>),
       FunctionStmt("outer", 1, <<>>,
         << PrintStmt(Call(Variable("inner", 1), 1, <<>>)),
            PrintStmt(Literal(String("outer"))),
            ReturnStmt(1, Literal(b)),
            PrintStmt(Literal(String("no"))) >>),
       PrintStmt(Call(Variable("outer", 1), 1, <<>>)) >>

\* var n = 0; fun f() { while (n < k) { n = n + 1; if (n == j) return n; } return "end"; }
\* print f(); print n;
ReturnWhile(k, j) ==
    << VarStmt("n", 1, Literal(Number(0))),
       FunctionStmt("f", 1, <<>>,
         << WhileStmt(Binary(Variable("n", 1), "<", 1, Literal(Number(k))),
                BlockStmt(<< ExpressionStmt(Assign("n", 1,
                                 Binary(Variable("n", 1), "+", 1, Literal(Number(1))))),
                             IfStmt(Binary(Variable("n", 1), "==", 1, Literal(Number(j))),
                                    ReturnStmt(1, Variable("n", 1)), NoStmt) >>)),
            ReturnStmt(1, Literal(String("end"))) >>),
       PrintStmt(Call(Variable("f", 1), 1, <<>>)),
       PrintStmt(Variable("n", 1)) >>

\* fun f() { return; print "after"; } print f();
BareReturn ==
    << FunctionStmt("f", 1, <<>>,
         << ReturnStmt(1, NoExpr), PrintStmt(Literal(String("after"))) >>),
       PrintStmt(Call(Variable("f", 1), 1, <<>>)) >>

\* fun f() { if (a) return; return b; } print f();
BareReturnIf(a, b) ==
    << FunctionStmt("f", 1, <<>>,
         << IfStmt(Literal(a), ReturnStmt(1, NoExpr), NoStmt), ReturnStmt(1, Literal(b)) >>),
       PrintStmt(Call(Variable("f", 1), 1, <<>>)) >>

\* fun f() { print a; } print f();
NoReturn(a) ==
    << FunctionStmt("f", 1, <<>>, << PrintStmt(Literal(a)) >>),
       PrintStmt(Call(Variable("f", 1), 1, <<>>)) >>

\* var t = 0; print a op (t = 1); print t;
LogicalAssign(a, op) ==
    << VarStmt("t", 1, Literal(Number(0))),
       PrintStmt(Logical(Literal(a), op, 1, Grouping(Assign("t", 1, Literal(Number(1)))))),
       PrintStmt(Variable("t", 1)) >>

\* print a op (1 / 0);
LogicalDivide(a, op) ==
    << PrintStmt(Logical(Literal(a), op, 1,
                         Grouping(Binary(Literal(Number(1)), "/", 1, Literal(Number(0)))))) >>

\* print a op b;
LogicalLiteral(a, op, b) == << PrintStmt(Logical(Literal(a), op, 1, Literal(b))) >>

\* print a == b; print a != b;
Equality(a, b) ==
    << PrintStmt(Binary(Literal(a), "==", 1, Literal(b))),
       PrintStmt(Binary(Literal(a), "!=", 1, Literal(b))) >>

\* fun f() {} fun g() {} print f == f; print f != f; print f == g; print clock == clock;
\* print f == a;
EqualityFunction(a) ==
    << FunctionStmt("f", 1, <<>>, <<>>),
       FunctionStmt("g", 1, <<>>, <<>>),
       PrintStmt(Binary(Variable("f", 1), "==", 1, Variable("f", 1))),
       PrintStmt(Binary(Variable("f", 1), "!=", 1, Variable("f", 1))),
       PrintStmt(Binary(Variable("f", 1), "==", 1, Variable("g", 1))),
       PrintStmt(Binary(Variable("clock", 1), "==", 1, Variable("clock", 1))),
       PrintStmt(Binary(Variable("f", 1), "==", 1, Literal(a))) >>

ArityArguments ==
    << Grouping(Assign("t", 1, Literal(Number(1)))), Grouping(Assign("u", 1, Literal(Number(1)))) >>

\* var t = 0; var u = 0; fun f(<k parameters>) { print "body"; }
\* f(<j arguments, of (t = 1), (u = 1)>); print "next";
ArityUser(k, j) ==
    << VarStmt("t", 1, Literal(Number(0))),
       VarStmt("u", 1, Literal(Number(0))),
       FunctionStmt("f", 1, SubSeq(<<"p", "q">>, 1, k), << PrintStmt(Literal(String("body"))) >>),
       ExpressionStmt(Call(Variable("f", 1), 1, SubSeq(ArityArguments, 1, j))),
       PrintStmt(Literal(String("next"))) >>

\* var t = 0; var u = 0; print clock(<j arguments>); print "next";   (or assert, for op)
ArityNative(op, j) ==
    << VarStmt("t", 1, Literal(Number(0))),
       VarStmt("u", 1, Literal(Number(0))),
       PrintStmt(Call(Variable(op, 1), 1, SubSeq(ArityArguments, 1, j))),
       PrintStmt(Literal(String("next"))) >>

\* print a(b);
CallValue(a, b) == << PrintStmt(Call(Literal(a), 1, <<Literal(b)>>)) >>

\* class C { m() { return this; } } var i = C(); print i.m() == i;
InstanceThis ==
    << ClassStmt("C", 1, << FunctionStmt("m", 1, <<>>, << ReturnStmt(1, This(1)) >>) >>),
       VarStmt("i", 1, Call(Variable("C", 1), 1, <<>>)),
       PrintStmt(Binary(Call(Get(Variable("i", 1), "m", 1), 1, <<>>), "==", 1,
                        Variable("i", 1))) >>

\* class C {} var i = C(); i.f = a; i.f = b; print i.f;
InstanceField(a, b) ==
    << ClassStmt("C", 1, <<>>),
       VarStmt("i", 1, Call(Variable("C", 1), 1, <<>>)),
       ExpressionStmt(Set(Variable("i", 1), "f", 1, Literal(a))),
       ExpressionStmt(Set(Variable("i", 1), "f", 1, Literal(b))),
       PrintStmt(Get(Variable("i", 1), "f", 1)) >>

\* class C {} var i = C(); print i.g;
InstanceUndefined ==
    << ClassStmt("C", 1, <<>>),
       VarStmt("i", 1, Call(Variable("C", 1), 1, <<>>)),
       PrintStmt(Get(Variable("i", 1), "g", 1)) >>

\* var i = a; i.f = b; print i.f;
PropertyOfValue(a, b) ==
    << VarStmt("i", 1, Literal(a)),
       ExpressionStmt(Set(Variable("i", 1), "f", 1, Literal(b))),
       PrintStmt(Get(Variable("i", 1), "f", 1)) >>

\* var x = a; x = b; print x;
AssignDefined(a, b, o) ==
    << VarStmt("x", Ln(o, 1), Literal(a)),
       ExpressionStmt(Assign("x", Ln(o, 2), Literal(b))),
       PrintStmt(Variable("x", Ln(o, 3))) >>

\* var y = a; x = b; print y;
AssignUndefined(a, b, o) ==
    << VarStmt("y", Ln(o, 1), Literal(a)),
       ExpressionStmt(Assign("x", Ln(o, 2), Literal(b))),
       PrintStmt(Variable("y", Ln(o, 3))) >>

\* var a = a; { var a = b; print a; } print a;
BlockShadow(a, b, o) ==
    << VarStmt("a", Ln(o, 1), Literal(a)),
       BlockStmt(<< VarStmt("a", Ln(o, 2), Literal(b)),
                    PrintStmt(Variable("a", Ln(o, 3))) >>),
       PrintStmt(Variable("a", Ln(o, 4))) >>

\* the statement `return b;` (k = 1) or `return;` (k = 0)
ReturnOf(b, k) == ReturnStmt(1, IF k = 1 THEN Literal(b) ELSE NoExpr)

\* print a; followed by a return that is in no function body:
\*   return b;   { return b; }   if (true) return b;   while (false) return b;
TopReturn(a, b, k, j) ==
    << PrintStmt(Literal(a)),
       CASE j = 0 -> ReturnOf(b, k)
         [] j = 1 -> BlockStmt(<< ReturnOf(b, k) >>)
         [] j = 2 -> IfStmt(Literal(Boolean(TRUE)), ReturnOf(b, k), NoStmt)
         [] j = 3 -> WhileStmt(Literal(Boolean(FALSE)), ReturnOf(b, k)),
       PrintStmt(Literal(String("after"))) >>

\* print a; followed by a statement the parser or the resolver rejects:
\*   { var v = 1; var v = 2; }   { var v = v; }   print a.f;
StaticError(a, j) ==
    << PrintStmt(Literal(a)),
       CASE j = 0 -> BlockStmt(<< VarStmt("v", 1, Literal(Number(1))),
                                  VarStmt("v", 1, Literal(Number(2))) >>)
         [] j = 1 -> BlockStmt(<< VarStmt("v", 1, Variable("v", 1)) >>)
         [] j = 2 -> PrintStmt(Get(Literal(a), "f", 1)) >>

\* print a op b;
Arithmetic(a, op, b) == << PrintStmt(Binary(Literal(a), op, 1, Literal(b))) >>

\* print 1 + "x" * 2;   (on two lines: the + on the first, the * on the second)
ArithmeticMixed(o) ==
    << PrintStmt(Binary(Literal(Number(1)), "+", Ln(o, 1),
                        Binary(Literal(String("x")), "*", Ln(o, 2), Literal(Number(2))))) >>

\* print !a;   or, for j = 1,   fun f() {} print !f;
Not(a, j) ==
    IF j = 0 THEN << PrintStmt(Unary("!", 1, Literal(a))) >>
    ELSE << FunctionStmt("f", 1, <<>>, <<>>),
            PrintStmt(Unary("!", 1, Variable("f", 1))) >>

\* print a op b;   or,   fun f() {} print f op b;   or   ... print a op f;
Comparison(a, op, b, j) ==
    CASE j = 0 -> << PrintStmt(Binary(Literal(a), op, 1, Literal(b))) >>
      [] j = 1 -> << FunctionStmt("f", 1, <<>>, <<>>),
                     PrintStmt(Binary(Variable("f", 1), op, 1, Literal(b))) >>
      [] j = 2 -> << FunctionStmt("f", 1, <<>>, <<>>),
                     PrintStmt(Binary(Literal(a), op, 1, Variable("f", 1))) >>

\* print a + b;   or,   fun f() {} print f + b;   or   ... print a + f;
Addition(a, b, j) ==
    CASE j = 0 -> << PrintStmt(Binary(Literal(a), "+", 1, Literal(b))) >>
      [] j = 1 -> << FunctionStmt("f", 1, <<>>, <<>>),
                     PrintStmt(Binary(Variable("f", 1), "+", 1, Literal(b))) >>
      [] j = 2 -> << FunctionStmt("f", 1, <<>>, <<>>),
                     PrintStmt(Binary(Literal(a), "+", 1, Variable("f", 1))) >>

\* var x = a; { var x = b; x = k; print x; } print x;   (j = 0)     or
\* { var x = a; x = b; print x; }                         (j = 1)
LocalAssign(a, b, k, j, o) ==
    IF j = 0
    THEN << VarStmt("x", Ln(o, 1), Literal(a)),
            BlockStmt(<< VarStmt("x", Ln(o, 2), Literal(b)),
                         ExpressionStmt(Assign("x", Ln(o, 3), Literal(Number(k)))),
                         PrintStmt(Variable("x", Ln(o, 4))) >>),
            PrintStmt(Variable("x", Ln(o, 5))) >>
    ELSE << BlockStmt(<< VarStmt("x", Ln(o, 1), Literal(a)),
                         ExpressionStmt(Assign("x", Ln(o, 2), Literal(b))),
                         PrintStmt(Variable("x", Ln(o, 3))) >>) >>

\* { var x = a; { print x; } }              (j = 0)
\* { var x = a; print x; } print x;         (j = 1)
\* { var x = a; { print x; } } print x;     (j = 2)
LocalRead(a, j, o) ==
    CASE j = 0 -> << BlockStmt(<< VarStmt("x", Ln(o, 1), Literal(a)),
                                  BlockStmt(<< PrintStmt(Variable("x", Ln(o, 2))) >>) >>) >>
      [] j = 1 -> << BlockStmt(<< VarStmt("x", Ln(o, 1), Literal(a)),
                                  PrintStmt(Variable("x", Ln(o, 2))) >>),
                     PrintStmt(Variable("x", Ln(o, 3))) >>
      [] j = 2 -> << BlockStmt(<< VarStmt("x", Ln(o, 1), Literal(a)),
                                  BlockStmt(<< PrintStmt(Variable("x", Ln(o, 2))) >>) >>),
                     PrintStmt(Variable("x", Ln(o, 3))) >>

\* { var x = a; { var y = b; print x; } print x; }
SameLineReads(a, b, o) ==
    << BlockStmt(<< VarStmt("x", Ln(o, 1), Literal(a)),
                    BlockStmt(<< VarStmt("y", Ln(o, 2), Literal(b)),
                                 PrintStmt(Variable("x", Ln(o, 3))) >>),
                    PrintStmt(Variable("x", Ln(o, 4))) >>) >>

\* var x = a; var x = b; print x;         (j = 0)
\* var x = a; fun x() {} print x;         (j = 1)
\* fun x() {} var x = b; print x;         (j = 2)
\* { var x = a; var x = b; print x; }     (j = 3)
Redefine(a, b, j, o) ==
    CASE j = 0 -> << VarStmt("x", Ln(o, 1), Literal(a)),
                     VarStmt("x", Ln(o, 2), Literal(b)),
                     PrintStmt(Variable("x", Ln(o, 3))) >>
      [] j = 1 -> << VarStmt("x", Ln(o, 1), Literal(a)),
                     FunctionStmt("x", Ln(o, 2), <<>>, <<>>),
                     PrintStmt(Variable("x", Ln(o, 3))) >>
      [] j = 2 -> << FunctionStmt("x", Ln(o, 1), <<>>, <<>>),
                     VarStmt("x", Ln(o, 2), Literal(b)),
                     PrintStmt(Variable("x", Ln(o, 3))) >>
      [] j = 3 -> << BlockStmt(<< VarStmt("x", Ln(o, 1), Literal(a)),
                                  VarStmt("x", Ln(o, 2), Literal(b)),
                                  PrintStmt(Variable("x", Ln(o, 3))) >>) >>

\* { print a; } print b;                            (j = 0)
\* { print a; print y; } print b;                   (j = 1)
\* { print a; { print -"s"; } } print b;            (j = 2)
\* fun f() { { return a; } } print f(); print b;    (j = 3)
BlockExit(a, b, j) ==
    CASE j = 0 -> << BlockStmt(<< PrintStmt(Literal(a)) >>), PrintStmt(Literal(b)) >>
      [] j = 1 -> << BlockStmt(<< PrintStmt(Literal(a)), PrintStmt(Variable("y", 1)) >>),
                     PrintStmt(Literal(b)) >>
      [] j = 2 -> << BlockStmt(<< PrintStmt(Literal(a)),
                                  BlockStmt(<< PrintStmt(Unary("-", 1, Literal(String("s")))) >>) >>),
                     PrintStmt(Literal(b)) >>
      [] j = 3 -> << FunctionStmt("f", 1, <<>>,
                                  << BlockStmt(<< ReturnStmt(1, Literal(a)) >>) >>),
                     PrintStmt(Call(Variable("f", 1), 1, <<>>)),
                     PrintStmt(Literal(b)) >>

\* print a; followed by two declarations of one name:
\*   { var x = a; var x = b; }            (j = 0)
\*   fun f(p, p) {}                       (j = 1)
\*   { fun g() {} var g = b; }            (j = 2)
\*   fun f() { var x = a; var x = b; }    (j = 3)
\*   { var x = a; { var x = b; } }        (j = 4)
\*   var x = a; var x = b;                (j = 5)
Duplicate(a, b, j) ==
    << PrintStmt(Literal(a)) >> \o
    CASE j = 0 -> << BlockStmt(<< VarStmt("x", 1, Literal(a)), VarStmt("x", 1, Literal(b)) >>) >>
      [] j = 1 -> << FunctionStmt("f", 1, <<"p", "p">>, <<>>) >>
      [] j = 2 -> << BlockStmt(<< FunctionStmt("g", 1, <<>>, <<>>),
                                  VarStmt("g", 1, Literal(b)) >>) >>
      [] j = 3 -> << FunctionStmt("f", 1, <<>>,
                        << VarStmt("x", 1, Literal(a)), VarStmt("x", 1, Literal(b)) >>) >>
      [] j = 4 -> << BlockStmt(<< VarStmt("x", 1, Literal(a)),
                                  BlockStmt(<< VarStmt("x", 1, Literal(b)) >>) >>) >>
      [] j = 5 -> << VarStmt("x", 1, Literal(a)), VarStmt("x", 1, Literal(b)) >>

\* print a / b;   (j = 0)   or   (a / b);   (j = 1)
Division(a, b, j) ==
    IF j = 0 THEN << PrintStmt(Binary(Literal(a), "/", 1, Literal(b))) >>
    ELSE << ExpressionStmt(Grouping(Binary(Literal(a), "/", 1, Literal(b)))) >>

Lines == {TRUE, FALSE}
Operators == {"and", "or"}
Natives == {"clock", "assert"}

Sources ==
    {Source("Counter", a, Nil, 0, 0, "", o) : a \in Numbers, o \in Lines}
    \cup {Source("Params", a, b, 0, 0, "", TRUE) : a \in Numbers, b \in Numbers}
    \cup {Source("ParamsGlobal", a, b, 0, 0, "", TRUE) : a \in Numbers, b \in Numbers}
    \cup {Source("Recursion", a, Nil, 0, 0, "", TRUE) : a \in Numbers}
    \cup {Source("RecursionGlobal", a, Nil, 0, 0, "", TRUE) : a \in Numbers}
    \cup {Source(f, Nil, Nil, 0, 0, "", o) :
             f \in {"ShowBlock", "ShowGlobal", "ShowCaller", "ShowLocal"}, o \in Lines}
    \cup {Source("ReturnLoop", a, Nil, 0, 0, "", TRUE) : a \in Literals}
    \cup {Source("ReturnNested", a, b, 0, 0, "", TRUE) : a \in Numbers, b \in Literals}
    \cup {Source("ReturnWhile", Nil, Nil, k, j, "", TRUE) : k \in 0..MaxNum, j \in 0..MaxNum}
    \cup {Source("BareReturn", Nil, Nil, 0, 0, "", TRUE)}
    \cup {Source("BareReturnIf", a, b, 0, 0, "", TRUE) :
             a \in {Boolean(TRUE), Boolean(FALSE)}, b \in Numbers}
    \cup {Source("NoReturn", a, Nil, 0, 0, "", TRUE) : a \in Numbers}
    \cup {Source("LogicalAssign", a, Nil, 0, 0, op, TRUE) : a \in Literals, op \in Operators}
    \cup {Source("LogicalDivide", a, Nil, 0, 0, op, TRUE) : a \in Literals, op \in Operators}
    \cup {Source("LogicalLiteral", a, b, 0, 0, op, TRUE) :
             a \in Literals, b \in Literals, op \in Operators}
    \cup {Source("Equality", a, b, 0, 0, "", TRUE) : a \in Literals, b \in Literals}
    \cup {Source("EqualityFunction", a, Nil, 0, 0, "", TRUE) : a \in Literals}
    \cup {Source("ArityUser", Nil, Nil, k, j, "", TRUE) : k \in 0..2, j \in 0..2}
    \cup {Source("ArityNative", Nil, Nil, 0, j, op, TRUE) : j \in 0..2, op \in Natives}
    \cup {Source("CallValue", a, b, 0, 0, "", TRUE) : a \in Literals, b \in Numbers}
    \cup {Source("InstanceThis", Nil, Nil, 0, 0, "", TRUE)}
    \cup {Source("InstanceUndefined", Nil, Nil, 0, 0, "", TRUE)}
    \cup {Source("InstanceField", a, b, 0, 0, "", TRUE) : a \in Numbers, b \in Numbers}
    \cup {Source("PropertyOfValue", a, b, 0, 0, "", TRUE) : a \in Numbers, b \in Numbers}
    \cup {Source(f, a, b, 0, 0, "", o) :
             f \in {"AssignDefined", "AssignUndefined"}, a \in Literals, b \in Literals,
             o \in Lines}
    \cup {Source("BlockShadow", a, b, 0, 0, "", o) : a \in Literals, b \in Literals, o \in Lines}
    \cup {Source("TopReturn", a, b, k, j, "", TRUE) :
             a \in Numbers, b \in Numbers, k \in 0..1, j \in 0..3}
    \cup {Source("StaticError", a, Nil, 0, j, "", TRUE) : a \in Numbers, j \in 0..2}
    \cup {s \in {Source("Arithmetic", a, b, 0, 0, op, TRUE) :
                     a \in Literals, b \in Literals, op \in {"-", "*", "/"}} :
             (s.op = "/" /\ s.a \in Numbers /\ s.b \in Numbers) =>
                 (s.b.n # 0 /\ s.a.n % s.b.n = 0)}
    \cup {Source("ArithmeticMixed", Nil, Nil, 0, 0, "", o) : o \in Lines}
    \cup {Source("Not", a, Nil, 0, j, "", TRUE) : a \in Literals, j \in 0..1}
    \cup {s \in {Source("Division", a, b, 0, j, "/", TRUE) :
                     a \in Literals, b \in Literals, j \in 0..1} :
             (s.a \in Numbers /\ s.b \in Numbers /\ s.b.n # 0) => s.a.n % s.b.n = 0}
    \cup {Source("Duplicate", a, b, 0, j, "", TRUE) : a \in Literals, b \in Literals, j \in 0..5}
    \cup {Source("BlockExit", a, b, 0, j, "", TRUE) : a \in Literals, b \in Literals, j \in 0..3}
    \cup {Source("Redefine", a, b, 0, j, "", o) :
             a \in Literals, b \in Literals, j \in 0..3, o \in Lines}
    \cup {Source("LocalRead", a, Nil, 0, j, "", o) : a \in Literals, j \in 0..2, o \in Lines}
    \cup {Source("SameLineReads", a, b, 0, 0, "", o) : a \in Literals, b \in Literals, o \in Lines}
    \cup {Source("LocalAssign", a, b, k, j, "", o) :
             a \in Numbers, b \in Numbers, k \in 0..MaxNum, j \in 0..1, o \in Lines}
    \cup {Source("Addition", a, b, 0, j, "+", TRUE) : a \in Literals, b \in Literals, j \in 0..2}
    \cup {Source("Comparison", a, b, 0, j, op, TRUE) :
             a \in Literals, b \in Literals, op \in {"<", "<=", ">", ">="}, j \in 0..2}

\* the statements the text of a source denotes
Program(s) ==
    CASE s.family = "Counter" -> Counter(s.a, s.oneline)
      [] s.family = "Params" -> Params(s.a, s.b, s.oneline)
      [] s.family = "ParamsGlobal" -> ParamsGlobal(s.a, s.b, s.oneline)
      [] s.family = "Recursion" -> Recursion(s.a, s.oneline)
      [] s.family = "RecursionGlobal" -> RecursionGlobal(s.a)
      [] s.family = "ShowBlock" -> ShowBlock(s.oneline)
      [] s.family = "ShowGlobal" -> ShowGlobal(s.oneline)
      [] s.family = "ShowCaller" -> ShowCaller(s.oneline)
      [] s.family = "ShowLocal" -> ShowLocal(s.oneline)
      [] s.family = "ReturnLoop" -> ReturnLoop(s.a)
      [] s.family = "ReturnNested" -> ReturnNested(s.a, s.b)
      [] s.family = "ReturnWhile" -> ReturnWhile(s.k, s.j)
      [] s.family = "BareReturn" -> BareReturn
      [] s.family = "BareReturnIf" -> BareReturnIf(s.a, s.b)
      [] s.family = "NoReturn" -> NoReturn(s.a)
      [] s.family = "LogicalAssign" -> LogicalAssign(s.a, s.op)
      [] s.family = "LogicalDivide" -> LogicalDivide(s.a, s.op)
      [] s.family = "LogicalLiteral" -> LogicalLiteral(s.a, s.op, s.b)
      [] s.family = "Equality" -> Equality(s.a, s.b)
      [] s.family = "EqualityFunction" -> EqualityFunction(s.a)
      [] s.family = "ArityUser" -> ArityUser(s.k, s.j)
      [] s.family = "ArityNative" -> ArityNative(s.op, s.j)
      [] s.family = "CallValue" -> CallValue(s.a, s.b)
      [] s.family = "InstanceThis" -> InstanceThis
      [] s.family = "InstanceField" -> InstanceField(s.a, s.b)
      [] s.family = "InstanceUndefined" -> InstanceUndefined
      [] s.family = "PropertyOfValue" -> PropertyOfValue(s.a, s.b)
      [] s.family = "AssignDefined" -> AssignDefined(s.a, s.b, s.oneline)
      [] s.family = "AssignUndefined" -> AssignUndefined(s.a, s.b, s.oneline)
      [] s.family = "BlockShadow" -> BlockShadow(s.a, s.b, s.oneline)
      [] s.family = "TopReturn" -> TopReturn(s.a, s.b, s.k, s.j)
      [] s.family = "StaticError" -> StaticError(s.a, s.j)
      [] s.family = "Arithmetic" -> Arithmetic(s.a, s.op, s.b)
      [] s.family = "ArithmeticMixed" -> ArithmeticMixed(s.oneline)
      [] s.family = "Not" -> Not(s.a, s.j)
      [] s.family = "Division" -> Division(s.a, s.b, s.j)
      [] s.family = "Duplicate" -> Duplicate(s.a, s.b, s.j)
      [] s.family = "BlockExit" -> BlockExit(s.a, s.b, s.j)
      [] s.family = "Redefine" -> Redefine(s.a, s.b, s.j, s.oneline)
      [] s.family = "LocalRead" -> LocalRead(s.a, s.j, s.oneline)
      [] s.family = "SameLineReads" -> SameLineReads(s.a, s.b, s.oneline)
      [] s.family = "LocalAssign" -> LocalAssign(s.a, s.b, s.k, s.j, s.oneline)
      [] s.family = "Addition" -> Addition(s.a, s.b, s.j)
      [] s.family = "Comparison" -> Comparison(s.a, s.op, s.b, s.j)

(***************************************************************************)
(* The driver: Lox::run (main.rs).  phase is the position in run:          *)
(*   "start"      before Parser::parse                                     *)
(*   "resolve"    in the loop of Resolver::resolve, at statement pc        *)
(*   "interpret"  in the loop of Interpreter::interpret, at statement pc    *)
(*   "done"       run answered Ok(())                                      *)
(*   "error"      run answered Err(error)                                  *)
(*   "panic"      the process was aborted by a panic                       *)
(*   "fuel"       the model's bound on calls and iterations was reached    *)
(* had_error and had_runtime_error are the fields of Lox, and exit_code is *)
(* the status the process of `lox script` ended with (Running before).     *)
(* tokens is the answer of Scanner::scan_tokens, where the run starts from *)
(* a text or from its tokens (empty where it starts from the statements).  *)
(***************************************************************************)
VARIABLES source, phase, pc, statements, scopes, current_func, locals,
          envs, funs, env, out, log, error, clock,
          had_error, had_runtime_error, exit_code, tokens

vars == <<source, phase, pc, statements, scopes, current_func, locals,
          envs, funs, env, out, log, error, clock,
          had_error, had_runtime_error, exit_code, tokens>>

\* the fields of Lox and the status of the process
lox == <<had_error, had_runtime_error, exit_code>>

\* the process has not ended
Running == -1

\* the status of a process whose main answers Err, and of one that panics
ExitFailure == 1
ExitPanic == 101

\* the global environment that Interpreter::new builds: the natives defined
GlobalsNew ==
    [EnvironmentNew EXCEPT
        !.values = [x \in {NativeFunctions[i] : i \in DOMAIN NativeFunctions} |-> Function(0, x)]]

\* the index of Interpreter.globals in envs
Globals == 1

Init ==
    /\ source \in Sources
    /\ clock \in 0..MaxClock
    /\ phase = "start"
    /\ pc = 0
    /\ statements = <<>>
    /\ scopes = <<>>
    /\ current_func = "None"
    /\ locals = <<>>
    /\ envs = <<>>
    /\ funs = <<>>
    /\ env = 0
    /\ out = <<>>
    /\ log = <<>>
    /\ error = NoErr
    /\ had_error = FALSE
    /\ had_runtime_error = FALSE
    /\ exit_code = Running
    /\ tokens = <<>>

\* run, lines 80-86: the parser answers the statements; Interpreter::new and
\* Resolver::new
Parse ==
    /\ phase = "start"
    /\ parse(Program(source)) = "ok"
    /\ phase' = "resolve"
    /\ pc' = 1
    /\ statements' = Program(source)
    /\ envs' = <<GlobalsNew>>
    /\ env' = Globals
    /\ scopes' = ResolverNew(locals).scopes
    /\ current_func' = ResolverNew(locals).current_func
    /\ UNCHANGED <<source, locals, funs, out, log, error, clock>>
    /\ UNCHANGED lox
    /\ UNCHANGED tokens

\* run, line 83: the parser answers a ParseError (its message and line are
\* not kept here) or panics
ParseFail ==
    /\ phase = "start"
    /\ parse(Program(source)) # "ok"
    /\ phase' = IF parse(Program(source)) = "panic" THEN "panic" ELSE "error"
    /\ error' = LoxError(parse(Program(source)), 0, "")
    /\ UNCHANGED <<source, pc, statements, scopes, current_func, locals,
                   envs, funs, env, out, log, clock>>
    /\ UNCHANGED lox
    /\ UNCHANGED tokens

\* one iteration of the loop of Resolver::resolve
ResolveStep ==
    /\ phase = "resolve"
    /\ pc <= Len(statements)
    /\ LET resolved(r) ==
               /\ scopes' = r.R.scopes
               /\ current_func' = r.R.current_func
               /\ locals' = r.R.locals
               /\ phase' = IF r.ok THEN "resolve" ELSE "error"
               /\ pc' = IF r.ok THEN pc + 1 ELSE pc
               /\ error' = r.err
       IN resolved(ResolveStatement(statements[pc],
                       [scopes |-> scopes, current_func |-> current_func, locals |-> locals]))
    /\ UNCHANGED <<source, statements, envs, funs, env, out, log, clock>>
    /\ UNCHANGED lox
    /\ UNCHANGED tokens

\* Resolver::resolve answers Ok(()): run goes on to Interpreter::interpret
ResolveDone ==
    /\ phase = "resolve"
    /\ pc > Len(statements)
    /\ phase' = "interpret"
    /\ pc' = 1
    /\ UNCHANGED <<source, statements, scopes, current_func, locals,
                   envs, funs, env, out, log, error, clock>>
    /\ UNCHANGED lox
    /\ UNCHANGED tokens

\* what a result of the evaluator makes of run
PhaseAfter(r) ==
    CASE r.status = "ok" -> "interpret"
      [] r.status = "panic" -> "panic"
      [] r.status = "fuel" -> "fuel"
      [] OTHER -> "error"

\* one iteration of the loop of Interpreter::interpret
InterpretStep ==
    /\ phase = "interpret"
    /\ pc <= Len(statements)
    /\ LET executed(r) ==
               /\ envs' = r.m.envs
               /\ funs' = r.m.funs
               /\ env' = r.m.env
               /\ out' = r.m.out
               /\ log' = r.m.log
               /\ phase' = PhaseAfter(r)
               /\ pc' = IF r.status = "ok" THEN pc + 1 ELSE pc
               /\ error' = IF r.status = "return" THEN LoxError("Return", 0, "") ELSE r.err
       IN executed(Execute(statements[pc],
                       [envs |-> envs, funs |-> funs, env |-> env, globals |-> Globals,
                        locals |-> locals, out |-> out, clock |-> clock, fuel |-> MaxFuel,
                        borrowed |-> {}, act |-> 0, log |-> log]))
    /\ UNCHANGED <<source, statements, scopes, current_func, locals, clock>>
    /\ UNCHANGED lox
    /\ UNCHANGED tokens

\* Interpreter::interpret answers Ok(Nil): run answers Ok(())
InterpretDone ==
    /\ phase = "interpret"
    /\ pc > Len(statements)
    /\ phase' = "done"
    /\ UNCHANGED <<source, pc, statements, scopes, current_func, locals,
                   envs, funs, env, out, log, error, clock>>
    /\ UNCHANGED lox
    /\ UNCHANGED tokens

\* run_file, lines 56-62, and main: the ? hands an error of run to main,
\* which answers it (the process fails); otherwise the fields of Lox decide
RunFileExit ==
    /\ exit_code = Running
    /\ phase \in {"done", "error", "panic"}
    /\ exit_code' = CASE phase = "panic" -> ExitPanic
                      [] phase = "error" -> ExitFailure
                      [] phase = "done" /\ had_error -> 65
                      [] phase = "done" /\ ~had_error /\ had_runtime_error -> 70
                      [] OTHER -> 0
    /\ UNCHANGED <<source, phase, pc, statements, scopes, current_func, locals,
                   envs, funs, env, out, log, error, clock, had_error, had_runtime_error>>
    /\ UNCHANGED tokens

Next ==
    \/ Parse
    \/ ParseFail
    \/ ResolveStep
    \/ ResolveDone
    \/ InterpretStep
    \/ InterpretDone
    \/ RunFileExit

Spec == Init /\ [][Next]_vars

\* run has ended
Ended == phase \in {"done", "error", "panic", "fuel"}

(***************************************************************************)
(* The parser on its own: Parser::new(tokens).parse() for the tokens of a  *)
(* text.  The texts are all the sequences of at most MaxWords lexemes of   *)
(* Words, and the for statements with each clause present or left out.     *)
(***************************************************************************)
MaxWords == 3

Words == {"print", "var", "class", "this", "a", "1", "=", ";", "(", ")", "{", "}"}

RECURSIVE WordTexts(_)
WordTexts(n) ==
    IF n = 0 THEN {<<>>}
    ELSE WordTexts(n - 1)
         \cup {Append(t, w) : t \in {u \in WordTexts(n - 1) : Len(u) = n - 1}, w \in Words}

\* for ( initializer condition ; increment ) body
ForInitializers == {<<";">>, <<"var", "i", "=", "0", ";">>, <<"i", "=", "0", ";">>}
ForConditions == {<<>>, <<"i", "<", "1">>}
ForIncrements == {<<>>, <<"i", "=", "i", "+", "1">>}
ForBodies == {<<"print", "i", ";">>, <<"{", "print", "i", ";", "}">>}

ForText(initializer, condition, increment, body) ==
    <<"for", "(">> \o initializer \o condition \o <<";">> \o increment \o <<")">> \o body

TokenSources ==
    {[family |-> "Words", words |-> t,
      initializer |-> <<>>, condition |-> <<>>, increment |-> <<>>, body |-> <<>>] :
        t \in WordTexts(MaxWords)}
    \cup {[family |-> "For", words |-> ForText(i, c, n, b),
           initializer |-> i, condition |-> c, increment |-> n, body |-> b] :
        i \in ForInitializers, c \in ForConditions, n \in ForIncrements, b \in ForBodies}

\* the rest of the run has not begun
NotRun ==
    /\ clock = 0
    /\ pc = 0
    /\ statements = <<>>
    /\ scopes = <<>>
    /\ current_func = "None"
    /\ locals = <<>>
    /\ envs = <<>>
    /\ funs = <<>>
    /\ env = 0
    /\ out = <<>>
    /\ log = <<>>
    /\ error = NoErr
    /\ had_error = FALSE
    /\ had_runtime_error = FALSE
    /\ exit_code = Running

InitParse ==
    /\ source \in TokenSources
    /\ tokens = TokensOf(source.words)
    /\ phase = "scanned"
    /\ NotRun

\* run, lines 83-84: Parser::new(tokens) and parse
ParseTokens ==
    /\ phase = "scanned"
    /\ LET parsed(r) ==
               /\ phase' = CASE r.status = "ok" -> "parsed"
                              [] r.status = "panic" -> "panic"
                              [] OTHER -> "error"
               /\ statements' = IF r.status = "ok" THEN r.node ELSE <<>>
               /\ error' = r.err
       IN parsed(Parser_parse(tokens))
    /\ UNCHANGED <<source, pc, scopes, current_func, locals, envs, funs, env, out, log,
                   clock, tokens>>
    /\ UNCHANGED lox

NextParse == ParseTokens

SpecParse == InitParse /\ [][NextParse]_vars

(***************************************************************************)
(* Properties.  What a program is expected to print is computed here from  *)
(* the source alone (its literals and operator), not by the evaluator.     *)
(***************************************************************************)
\* the value a global variable holds
GlobalValue(name) == envs[Globals].values[name]

\* nil and false, the values the language calls falsy
Falsy(v) == v \in {Nil, Boolean(FALSE)}

\* whether `a op b` is decided by a alone, and the value of `a op b`
Decides(a, op) == IF op = "and" THEN Falsy(a) ELSE ~Falsy(a)
LogicalValue(a, op, b) == IF Decides(a, op) THEN a ELSE b

\* run ended with Ok(()) after printing exactly these lines
Printed(lines) == phase = "done" /\ out = lines

\* C1: the closure c = make() of the counter program keeps the variable i of
\* make alive: started from i = a, the three calls of c print a+1, a+2, a+3.
C1_ClosureKeepsCounter ==
    (Ended /\ source.family = "Counter") =>
        Printed(<<NumToString(source.a.n + 1), NumToString(source.a.n + 2),
                  NumToString(source.a.n + 3)>>)

\* C2: a read of a parameter in the body yields the argument of the call:
\* sub(a, b) prints a - b, id(b) prints b also when a global p exists, and
\* the recursive count(a) reads its own n in every activation and prints a.
C2_ParametersReadArguments ==
    Ended =>
        /\ source.family = "Params" => Printed(<<NumToString(source.a.n - source.b.n)>>)
        /\ source.family = "ParamsGlobal" => Printed(<<NumToString(source.b.n)>>)
        /\ source.family = "Recursion" => Printed(<<NumToString(source.a.n)>>)

\* C3: a variable in a function body reads the binding visible where the
\* function was declared: the global a in the two programs of the spec and
\* when the caller has its own a, the block's a when show is declared in
\* the block after it.
C3_LexicalScoping ==
    Ended =>
        /\ source.family \in {"ShowBlock", "ShowGlobal"} => Printed(<<"global">>)
        /\ source.family = "ShowCaller" => Printed(<<"local", "global">>)
        /\ source.family = "ShowLocal" => Printed(<<"outer">>)

\* C4: a `return e;` ends the running call at once: the next event is the
\* exit of that same (innermost) call with the value of e, the call executes
\* no statement afterwards, and the caller goes on: the programs that return
\* from inside a loop, an if and a block print the returned values and
\* nothing of what follows the return.
C4_ReturnEndsCall ==
    /\ \A i \in DOMAIN log :
          log[i].ev = "return" =>
              /\ log[i].act # 0
              /\ i < Len(log)
              /\ log[i + 1] = Event("exit", log[i].act, log[i].v)
              /\ \A j \in DOMAIN log : j > i + 1 => log[j].act # log[i].act
    /\ Ended =>
          /\ source.family = "ReturnLoop" => Printed(<<Display(source.a)>>)
          /\ source.family = "ReturnNested" =>
                 Printed(<<Display(source.a), "outer", Display(source.b)>>)
          /\ source.family = "ReturnWhile" =>
                 Printed(IF 1 <= source.j /\ source.j <= source.k
                         THEN <<NumToString(source.j), NumToString(source.j)>>
                         ELSE <<"end", NumToString(source.k)>>)

C4_Witness ==
    /\ phase = "done"
    /\ source.family = "ReturnNested"
    /\ source.a = Number(1)
    /\ source.b = String("a")
    /\ out = <<"1", "outer", "a">>
    /\ \E i \in DOMAIN log : log[i].ev = "return" /\ log[i].v = Number(1)

\* C5: a bare `return;` ends the running call at once with nil (the next
\* event is the exit of that call with nil), and so does the end of a body:
\* f() { return; print "after"; } prints only the nil of the call.
C5_BareReturnEndsCall ==
    /\ \A i \in DOMAIN log :
          log[i].ev \in {"return;", "end"} =>
              /\ i < Len(log)
              /\ log[i + 1] = Event("exit", log[i].act, Nil)
    /\ Ended =>
          /\ source.family = "BareReturn" => Printed(<<"nil">>)
          /\ source.family = "BareReturnIf" =>
                 Printed(IF source.a = Boolean(TRUE) THEN <<"nil">> ELSE <<Display(source.b)>>)
          /\ source.family = "NoReturn" => Printed(<<Display(source.a), "nil">>)

\* C6: `a and b` and `a or b` yield the value of a without evaluating b when
\* a decides (falsy for and, truthy for or), otherwise the value of b: with
\* b an assignment the assignment happens only when a does not decide, with
\* b = 1/0 the division error is raised only when a does not decide, and the
\* value printed is the operand itself, not a boolean.
C6_ShortCircuit ==
    Ended =>
        /\ source.family = "LogicalLiteral" =>
               Printed(<<Display(LogicalValue(source.a, source.op, source.b))>>)
        /\ source.family = "LogicalAssign" =>
               Printed(IF Decides(source.a, source.op)
                       THEN <<Display(source.a), "0">> ELSE <<"1", "1">>)
        /\ source.family = "LogicalDivide" =>
               IF Decides(source.a, source.op)
               THEN Printed(<<Display(source.a)>>)
               ELSE /\ phase = "error"
                    /\ error = LoxError("RuntimeError", 1, "Can't divide by zero.")
                    /\ out = <<>>

C6_Witness ==
    /\ phase = "done"
    /\ source.family = "LogicalDivide"
    /\ source.op = "and"
    /\ source.a = Boolean(FALSE)
    /\ out = <<"false">>

\* C7: == and != never raise; values of different kinds are unequal, nil
\* equals nil, values of one kind are equal when they are the same value (a
\* function equals itself), and != is the negation of ==.
C7_EqualityTotal ==
    Ended =>
        /\ source.family = "Equality" =>
               Printed(<<BoolToString(source.a = source.b), BoolToString(source.a # source.b)>>)
        /\ source.family = "EqualityFunction" =>
               Printed(<<"true", "false", "false", "true", "false">>)

\* the number of parameters of the callable of an arity program
ArityExpected == IF source.family = "ArityUser" THEN source.k
                 ELSE IF source.op = "clock" THEN 0 ELSE 1

\* C8: a call of a callable of arity n with m # n arguments is the runtime
\* error `Expected n arguments but got m.`, raised after the arguments were
\* evaluated (their assignments happened) and before the call is entered
\* (no environment allocated for it, nothing of the body printed).
C8_ArityMismatch ==
    (Ended /\ source.family \in {"ArityUser", "ArityNative"} /\ source.j # ArityExpected) =>
        /\ phase = "error"
        /\ error.kind = "RuntimeError"
        /\ error.msg = "Expected " \o ToString(ArityExpected) \o " arguments but got "
                           \o ToString(source.j) \o "."
        /\ out = <<>>
        /\ GlobalValue("t") = Number(IF source.j >= 1 THEN 1 ELSE 0)
        /\ GlobalValue("u") = Number(IF source.j >= 2 THEN 1 ELSE 0)
        /\ Len(envs) = 1
        /\ \A i \in DOMAIN log : log[i].ev # "call"

\* C9: a method read off an instance is bound to that very instance:
\* class C { m() { return this; } } var i = C(); print i.m() == i; prints true.
C9_ThisIsTheInstance ==
    (Ended /\ source.family = "InstanceThis") => Printed(<<"true">>)

\* C10: a property read yields the most recent write to that name on that
\* instance (i.f = a; i.f = b; print i.f; prints b), and a read of a name
\* that is neither a field nor a method is the runtime error
\* `Undefined property 'g'.`
C10_LastWriteWins ==
    Ended =>
        /\ source.family = "InstanceField" => Printed(<<Display(source.b)>>)
        /\ source.family = "InstanceUndefined" =>
               /\ phase = "error"
               /\ error.kind = "RuntimeError"
               /\ error.msg = "Undefined property 'g'."

\* C11: a top-level assignment x = b succeeds exactly when x is defined in
\* the globals: after var x = a the value of x becomes b whatever the kinds
\* of a and b, and without a declaration of x the run ends with the error
\* reported as `RuntimeError [line N] : Undefined variable 'x'.` (N the line
\* of the assignment), nothing is printed and the globals have no x.
C11_TopLevelAssignment ==
    Ended =>
        /\ source.family = "AssignDefined" =>
               /\ Printed(<<Display(source.b)>>)
               /\ GlobalValue("x") = source.b
        /\ source.family = "AssignUndefined" =>
               /\ phase = "error"
               /\ report(error) = "RuntimeError [line " \o ToString(Ln(source.oneline, 2))
                                      \o "] : Undefined variable 'x'."
               /\ out = <<>>
               /\ "x" \notin DOMAIN envs[Globals].values
               /\ GlobalValue("y") = source.a

C11_Witness ==
    /\ phase = "error"
    /\ source.family = "AssignUndefined"
    /\ ~source.oneline
    /\ source.b = String("a")
    /\ report(error) = "RuntimeError [line 2] : Undefined variable 'x'."

\* C12: a variable declared in a block shadows the outer variable of the
\* same name inside the block only: var a = a; { var a = b; print a; }
\* print a; prints b then a, the block's a lives in an environment of its
\* own, and the global a still holds a when the program ends.
C12_BlockShadows ==
    (Ended /\ source.family = "BlockShadow") =>
        /\ Printed(<<Display(source.b), Display(source.a)>>)
        /\ GlobalValue("a") = source.a
        /\ Len(envs) = 2
        /\ envs[2].values = [x \in {"a"} |-> source.b]
        /\ env = Globals

C12_Witness ==
    /\ phase = "done"
    /\ source.family = "BlockShadow"
    /\ source.a = Number(1)
    /\ source.b = Number(2)
    /\ out = <<"2", "1">>

\* C13: the passes run in sequence.  Nothing is printed and no statement is
\* executed while run is in the parser or in the resolver, nor by the step
\* in which one of them reports an error; a return that is in no function
\* body (at top level, in a block, in an if or in a while) is rejected by
\* the resolver with `Can't return from top-level code.`; and the programs
\* that start with a print and hold a statement the parser or the resolver
\* rejects end with an error and print nothing.
C13_PassesInSequence ==
    /\ [](phase \in {"start", "resolve"} => (out = <<>> /\ log = <<>>))
    /\ [][(phase \in {"start", "resolve"} /\ phase' = "error") =>
              (out' = <<>> /\ log' = <<>>)]_vars
    /\ []((Ended /\ source.family = "TopReturn") =>
              /\ phase = "error"
              /\ error.msg = "ResolverError: Can't return from top-level code."
              /\ out = <<>>
              /\ log = <<>>)
    /\ []((Ended /\ source.family = "StaticError") =>
              /\ phase = "error"
              /\ out = <<>>
              /\ log = <<>>)

C13_Witness ==
    /\ phase = "error"
    /\ source.family = "TopReturn"
    /\ source.j = 2
    /\ pc = 2
    /\ error.msg = "ResolverError: Can't return from top-level code."
    /\ out = <<>>

\* C14: the status run_file ends the process with tells the kind of error:
\* 65 after an error of the parser or of the resolver, whose kind is not
\* RuntimeError; 70 after a runtime error; 0 after a run without error.
C14_ExitStatus ==
    exit_code # Running =>
        /\ source.family \in {"TopReturn", "StaticError"} =>
               /\ error.kind \notin {"", "RuntimeError"}
               /\ exit_code = 65
        /\ source.family = "AssignUndefined" =>
               /\ error.kind = "RuntimeError"
               /\ exit_code = 70
        /\ source.family \in {"AssignDefined", "BlockShadow"} =>
               /\ error = NoErr
               /\ exit_code = 0

\* the number a op b of two numbers (the quotients of the programs are whole)
ArithmeticValue(a, op, b) ==
    CASE op = "-" -> a - b
      [] op = "*" -> a * b
      [] op = "/" -> a \div b

\* C15: - * and / need two numbers: print a op b; prints the number a op b
\* when a and b are numbers and is otherwise a runtime error raised by that
\* operator, with nothing printed (never nil or another value); in
\* print 1 + "x" * 2; the runtime error is reported on the * (its line).
C15_ArithmeticNeedsNumbers ==
    Ended =>
        /\ source.family = "Arithmetic" =>
               IF source.a \in Numbers /\ source.b \in Numbers
               THEN Printed(<<NumToString(ArithmeticValue(source.a.n, source.op, source.b.n))>>)
               ELSE /\ phase = "error"
                    /\ error.kind = "RuntimeError"
                    /\ error.line = 1
                    /\ out = <<>>
        /\ source.family = "ArithmeticMixed" =>
               /\ phase = "error"
               /\ error.kind = "RuntimeError"
               /\ error.line = Ln(source.oneline, 2)
               /\ out = <<>>

(***************************************************************************)
(* The scanner on its own: Scanner::new(source).scan_tokens() for a text,  *)
(* a sequence of characters.  The texts are all the sequences of at most   *)
(* MaxText characters of Chars (@ is a character scan_token has no arm     *)
(* for), the texts of at most MaxLexemes lexemes each followed by a        *)
(* separator, and the texts of the tests of the scanner; words are the     *)
(* lexemes a text is written from.                                         *)
(***************************************************************************)
MaxText == 4
MaxLexemes == 2

Chars == {"a", "4", "=", ";", " ", "\n", "/", "\"", "@"}

RECURSIVE CharTexts(_)
CharTexts(n) ==
    IF n = 0 THEN {<<>>}
    ELSE CharTexts(n - 1)
         \cup {Append(t, c) : t \in {u \in CharTexts(n - 1) : Len(u) = n - 1}, c \in Chars}

Lexemes == {<<"a">>, <<"=">>, <<"4", "5", "6">>, <<";">>, <<"\"", "s", " ", "/", "/", "\"">>}
Separators == {<<" ">>, <<"\n">>, <<"\t", "\r">>, <<"/", "/", " ", "@", "\"", "\n">>}

\* the texts of n lexemes, each with the separator after it
RECURSIVE LexemeTexts(_)
LexemeTexts(n) ==
    IF n = 0 THEN {[text |-> <<>>, words |-> <<>>]}
    ELSE {[text |-> t.text \o l \o p, words |-> Append(t.words, Text(l, 1, Len(l) + 1))] :
             t \in LexemeTexts(n - 1), l \in Lexemes, p \in Separators}

\* a = 456;
TestAssignment ==
    << "a", " ", "=", " ", "4", "5", "6", ";" >>

\* "this is a string"
TestString ==
    << "\"", "t", "h", "i", "s", " ", "i", "s", " ", "a", " ", "s", "t", "r", "i", "n",
       "g", "\"" >>

\* the text of test_variable_declaration
TestDeclaration ==
    << "\n", " ", " ", " ", " ", " ", " ", " ", " ", "v", "a", "r", " ", "a", " ", "=",
       " ", "1", "2", "3", ";", "\n", " ", " ", " ", " ", " ", " ", " ", " ", "v", "a",
       "r", " ", "b", " ", "=", " ", "4", "5", "6", ";", "\n", " ", " ", " ", " ", " ",
       " ", " ", " ", "v", "a", "r", " ", "c", " ", "=", " ", "a", " ", "+", " ", "b",
       ";", "\n", " ", " ", " ", " ", " ", " ", " ", " " >>

ScanSources ==
    {[family |-> "Free", text |-> t, words |-> <<>>] : t \in CharTexts(MaxText)}
    \cup {[family |-> "Lexemes", text |-> t.text, words |-> t.words] :
             t \in UNION {LexemeTexts(n) : n \in 0..MaxLexemes}}
    \cup {[family |-> "Test", text |-> TestAssignment, words |-> <<"a", "=", "456", ";">>],
          [family |-> "Test", text |-> TestString, words |-> <<"\"this is a string\"">>],
          [family |-> "Test", text |-> TestDeclaration,
           words |-> <<"var", "a", "=", "123", ";", "var", "b", "=", "456", ";", "var", "c", "=", "a", "+", "b", ";">>]}

InitScan ==
    /\ source \in ScanSources
    /\ tokens = <<>>
    /\ phase = "start"
    /\ NotRun

\* run, lines 80-81: Scanner::new(source) and scan_tokens
ScanTokens ==
    /\ phase = "start"
    /\ LET scanned(r) ==
               /\ phase' = IF r.status = "ok" THEN "scanned" ELSE "panic"
               /\ tokens' = IF r.status = "ok" THEN r.S.tokens ELSE <<>>
       IN scanned(scan_tokens(source.text))
    /\ UNCHANGED <<source, pc, statements, scopes, current_func, locals, envs, funs, env,
                   out, log, error, clock>>
    /\ UNCHANGED lox

NextScan == ScanTokens

SpecScan == InitScan /\ [][NextScan]_vars

\* the text ParseError::report gives for the place of a token
PlaceOf(token) == IF token.type = "EOF" THEN " at end" ELSE " at '" \o token.lexeme \o "'"

\* C16: on every sequence of tokens ended by EOF, parse ends and answers the
\* statements or a ParseError that carries the line and the lexeme of a
\* token of the input; a token that cannot start an expression where one is
\* expected (; ) class this or the end of the input) gives such a ParseError,
\* the process is not aborted.
C16_ParseAnswers ==
    phase # "scanned" =>
        /\ phase \in {"parsed", "error"}
        /\ phase = "error" =>
               /\ error.kind = "ParseError"
               /\ \E i \in DOMAIN tokens :
                      error.line = tokens[i].line /\ error.where_ = PlaceOf(tokens[i])
        /\ source.words \in {<<";">>, <<"print", ")">>, <<"class", "a">>,
                              <<"print", "this", ";">>, <<"print">>, <<"a", "=", ";">>} =>
               phase = "error"

\* the kind of the body of a for statement of the texts
ForBodyKind == IF source.body[1] = "{" THEN "Block" ELSE "Print"

\* C17: a for statement parses whichever of its clauses are present, also
\* for (;;) body, and the statement it gives is the initializer (if any) in
\* a block with a while loop, whose condition is the condition or the
\* literal true and whose body is the body, in a block with the increment
\* as an expression statement if there is one.
C17_ForDesugars ==
    (phase # "scanned" /\ source.family = "For") =>
        /\ phase = "parsed"
        /\ Len(statements) = 1
        /\ LET loop == IF source.initializer = <<";">> THEN statements[1]
                       ELSE statements[1].statements[2]
           IN /\ source.initializer # <<";">> =>
                     /\ statements[1].k = "Block"
                     /\ Len(statements[1].statements) = 2
                     /\ statements[1].statements[1].k =
                            (IF source.initializer[1] = "var" THEN "Var" ELSE "Expression")
              /\ loop.k = "While"
              /\ loop.condition = IF source.condition = <<>> THEN Literal(Boolean(TRUE))
                                  ELSE Binary(loop.condition.left, "<", loop.condition.line,
                                              Literal(Number(1)))
              /\ source.increment = <<>> => loop.body.k = ForBodyKind
              /\ source.increment # <<>> =>
                     /\ loop.body.k = "Block"
                     /\ Len(loop.body.statements) = 2
                     /\ loop.body.statements[1].k = ForBodyKind
                     /\ loop.body.statements[2].k = "Expression"
                     /\ loop.body.statements[2].expression.k = "Assign"

\* how a text reads, told from its characters alone: "unsupported" if a
\* character outside the strings and the comments is none the language has,
\* "unterminated" if a string is open at the end of the text, else "ok".
\* mode is "code", "comment" or "string"
RECURSIVE Reads(_, _, _)
Reads(text, i, mode) ==
    IF i > Len(text) THEN (IF mode = "string" THEN "unterminated" ELSE "ok")
    ELSE CASE mode = "string" ->
                 Reads(text, i + 1, IF text[i] = "\"" THEN "code" ELSE "string")
           [] mode = "comment" ->
                 Reads(text, i + 1, IF text[i] = "\n" THEN "code" ELSE "comment")
           [] mode = "code" /\ text[i] = "\"" -> Reads(text, i + 1, "string")
           [] mode = "code" /\ text[i] = "/" /\ i < Len(text) /\ text[i + 1] = "/" ->
                 Reads(text, i + 2, "comment")
           [] OTHER ->
                 IF text[i] \in Letters \cup DOMAIN Digits \cup DOMAIN SingleTokens
                                \cup {" ", "\n", "\t", "\r"}
                 THEN Reads(text, i + 1, "code")
                 ELSE "unsupported"

\* the tokens end with EOF and have no other EOF
EndsWithEOF ==
    /\ Len(tokens) >= 1
    /\ tokens[Len(tokens)].type = "EOF"
    /\ \A i \in 1..(Len(tokens) - 1) : tokens[i].type # "EOF"

\* the tokens are those of the lexemes the text was written from, and EOF
TokensOfWords ==
    /\ Len(tokens) = Len(source.words) + 1
    /\ \A i \in DOMAIN source.words : tokens[i].lexeme = source.words[i]

\* C18 as stated: on every text of supported characters scan_tokens ends
\* and answers tokens that end with EOF and have no other EOF; whitespace,
\* newlines and comments add no token: the tokens are those of the lexemes
\* and EOF (5 for a = 456; and 2 for a string literal).
C18_ScanTokensAsStated ==
    (phase # "start" /\ Reads(source.text, 1, "code") # "unsupported") =>
        /\ phase = "scanned"
        /\ EndsWithEOF
        /\ source.family \in {"Lexemes", "Test"} => TokensOfWords

\* C18 amended: the same on every text of supported characters whose
\* strings are closed; on a text with a string left open scan_tokens
\* panics and answers no tokens.
C18_ScanTokens ==
    (phase # "start" /\ Reads(source.text, 1, "code") # "unsupported") =>
        IF Reads(source.text, 1, "code") = "unterminated"
        THEN phase = "panic" /\ tokens = <<>>
        ELSE /\ phase = "scanned"
             /\ EndsWithEOF
             /\ source.family \in {"Lexemes", "Test"} => TokensOfWords
             /\ source.text = TestAssignment => Len(tokens) = 5
             /\ source.text = TestString => Len(tokens) = 2
             /\ source.text = TestDeclaration => Len(tokens) = 18

C18_Witness ==
    /\ phase = "scanned"
    /\ source.family = "Lexemes"
    /\ source.words = <<"a", "456">>
    /\ \E i \in DOMAIN source.text : source.text[i] = "@"
    /\ Len(tokens) = 3
    /\ tokens[2].literal = Number(456)

\* C19: ! negates truthiness: print !a; prints true when a is nil or false
\* and false for every other value a (true, a number, 0, a string, the empty
\* string, a function).
C19_NotNegatesTruthiness ==
    (Ended /\ source.family = "Not") =>
        Printed(<<BoolToString(source.j = 0 /\ source.a \in {Nil, Boolean(FALSE)})>>)

\* the boolean a op b of two numbers
ComparisonValue(a, op, b) ==
    CASE op = "<" -> a < b
      [] op = "<=" -> a <= b
      [] op = ">" -> a > b
      [] op = ">=" -> a >= b

\* C20: < <= > >= need two numbers: print a op b; prints the boolean a op b
\* when a and b are numbers and is otherwise (an operand nil, a boolean, a
\* string or a function) a runtime error, with nothing printed.
C20_ComparisonNeedsNumbers ==
    (Ended /\ source.family = "Comparison") =>
        IF source.j = 0 /\ source.a \in Numbers /\ source.b \in Numbers
        THEN Printed(<<BoolToString(ComparisonValue(source.a.n, source.op, source.b.n))>>)
        ELSE /\ phase = "error"
             /\ error.kind = "RuntimeError"
             /\ out = <<>>

\* the kinds of the operands of print a + b; of the Addition programs: the
\* function f stands for a (j = 1) or for b (j = 2)
LeftKind == IF source.j = 1 THEN "Function" ELSE source.a.t
RightKind == IF source.j = 2 THEN "Function" ELSE source.b.t

\* the program is a runtime error on its line 1 and prints nothing
RuntimeErrorOnly ==
    /\ phase = "error"
    /\ error.kind = "RuntimeError"
    /\ error.line = 1
    /\ out = <<>>

\* C21 as stated: print a + b; prints the sum of two numbers, the
\* concatenation of two strings, and for a string with a value of any other
\* kind (nil and functions too) the string joined with the text of the
\* value, in operand order; every other pair is a runtime error.
C21_AdditionAsStated ==
    (Ended /\ source.family = "Addition") =>
        CASE LeftKind = "Number" /\ RightKind = "Number" ->
                 Printed(<<NumToString(source.a.n + source.b.n)>>)
          [] LeftKind = "String" /\ RightKind = "String" ->
                 Printed(<<source.a.s \o source.b.s>>)
          [] LeftKind = "String" /\ RightKind \in {"Number", "Boolean", "Nil"} ->
                 Printed(<<source.a.s \o Display(source.b)>>)
          [] LeftKind \in {"Number", "Boolean", "Nil"} /\ RightKind = "String" ->
                 Printed(<<Display(source.a) \o source.b.s>>)
          [] LeftKind = "String" /\ RightKind = "Function" ->
                 phase = "done" /\ Len(out) = 1
          [] LeftKind = "Function" /\ RightKind = "String" ->
                 phase = "done" /\ Len(out) = 1
          [] OTHER -> RuntimeErrorOnly

\* C21 amended: print a + b; prints the sum of two numbers, the
\* concatenation of two strings, and for a string with a number or a boolean
\* the string joined with the text of the other value, in operand order;
\* every other pair (a string with nil or with a function too) is a runtime
\* error.
C21_Addition ==
    (Ended /\ source.family = "Addition") =>
        CASE LeftKind = "Number" /\ RightKind = "Number" ->
                 Printed(<<NumToString(source.a.n + source.b.n)>>)
          [] LeftKind = "String" /\ RightKind = "String" ->
                 Printed(<<source.a.s \o source.b.s>>)
          [] LeftKind = "String" /\ RightKind \in {"Number", "Boolean"} ->
                 Printed(<<source.a.s \o Display(source.b)>>)
          [] LeftKind \in {"Number", "Boolean"} /\ RightKind = "String" ->
                 Printed(<<Display(source.a) \o source.b.s>>)
          [] OTHER -> RuntimeErrorOnly

C21_Witness ==
    /\ source.family = "Addition"
    /\ source.j = 0
    /\ source.a = Number(1)
    /\ source.b = String("a")
    /\ Printed(<<"1a">>)

\* C22: an assignment to a variable of a local scope writes the binding of
\* that scope and no other.  In var x = a; { var x = b; x = k; print x; }
\* print x; the block prints k and the global x still holds a; in
\* { var x = a; x = b; print x; } the block prints b and no global x is made.
C22_LocalAssignment ==
    (Ended /\ source.family = "LocalAssign") =>
        IF source.j = 0
        THEN /\ Printed(<<NumToString(source.k), Display(source.a)>>)
             /\ GlobalValue("x") = source.a
        ELSE /\ Printed(<<Display(source.b)>>)
             /\ "x" \notin DOMAIN envs[Globals].values

\* C23: a read with a distance d in the side-table reads the binding d
\* environments up, a read without one reads the globals, and a read of a
\* name the chosen environment does not bind is a runtime error that yields
\* no value.  { var x = a; { print x; } } prints a; in { var x = a; print x; }
\* print x; and in { var x = a; { print x; } } print x; the block prints a
\* and the last read, of an x that globals do not bind, is the runtime error
\* Undefined variable 'x'., on one line as on several.
C23_ReadsResolvedBinding ==
    (Ended /\ source.family = "LocalRead") =>
        IF source.j = 0
        THEN Printed(<<Display(source.a)>>)
        ELSE /\ phase = "error"
             /\ error.kind = "RuntimeError"
             /\ error.msg = "Undefined variable 'x'."
             /\ out = <<Display(source.a)>>

\* the distances the side-table holds
Distances == {locals[i].depth : i \in DOMAIN locals}

\* C25: the side-table is keyed by the expression.  The two reads of x in
\* { var x = a; { var y = b; print x; } print x; } have an entry each, of
\* distance 1 and of distance 0, and both print a, also when the program is
\* written on one line.
C25_KeyedByExpression ==
    (Ended /\ source.family = "SameLineReads") =>
        /\ Printed(<<Display(source.a), Display(source.a)>>)
        /\ Len(locals) = 2
        /\ Distances = {0, 1}

\* C24: a global may be redefined, a local may not.  var x = a; var x = b;
\* print x; prints b, var x = a; fun x() {} print x; prints the function,
\* fun x() {} var x = b; print x; prints b, and { var x = a; var x = b;
\* print x; } is an error with nothing printed.
C24_GlobalsRedefined ==
    (Ended /\ source.family = "Redefine") =>
        CASE source.j \in {0, 2} -> /\ Printed(<<Display(source.b)>>)
                                    /\ GlobalValue("x") = source.b
          [] source.j = 1 -> /\ phase = "done"
                             /\ Len(out) = 1
                             /\ GlobalValue("x").t = "Function"
          [] source.j = 3 -> phase = "error" /\ out = <<>>

\* C26: execute_block puts the environment back on every way out.  After
\* each statement of the BlockExit programs, whether the block ran to its
\* end, a return unwound through it or a runtime error left it, the current
\* environment of the interpreter is globals again, as before the block.
C26_EnvironmentRestored ==
    (source.family = "BlockExit" /\ phase \in {"interpret", "done", "error"}) =>
        env = Globals

\* following enclosing from the environment id reaches globals in at most n
\* steps
RECURSIVE ReachesGlobals(_, _)
ReachesGlobals(id, n) ==
    IF id = Globals THEN TRUE
    ELSE IF n = 0 \/ id \notin DOMAIN envs THEN FALSE
    ELSE ReachesGlobals(envs[id].enclosing, n - 1)

\* the environments that were current in an interpreter: the one of the
\* top-level interpreter and the ones of the calls
CurrentEnvironments ==
    {env} \cup {log[i].act : i \in {j \in DOMAIN log : log[j].ev = "call"}}

\* C27: once the interpreter is made, globals has no enclosing environment
\* and the enclosing links from every environment that is or was current
\* (of the top-level interpreter, of a block, of a call), and from every
\* other environment of the heap, lead to globals in finitely many steps
\* without a cycle.
C27_ChainReachesGlobals ==
    (phase \notin {"start", "scanned"} /\ envs # <<>>) =>
        /\ envs[Globals].enclosing = 0
        /\ \A id \in DOMAIN envs : ReachesGlobals(id, Len(envs))
        /\ \A id \in CurrentEnvironments : id \in DOMAIN envs /\ ReachesGlobals(id, Len(envs))
        /\ \A id \in DOMAIN envs : envs[id].enclosing # id

C27_Witness ==
    /\ phase = "done"
    /\ source.family = "BlockExit"
    /\ source.j = 3
    /\ env = Globals
    /\ \E i \in DOMAIN log : log[i].ev = "call" /\ envs[log[i].act].enclosing = Globals
    /\ \E id \in DOMAIN envs : envs[id].enclosing \in CurrentEnvironments \ {0, Globals}

\* C28: a name declared twice in one local scope is an error of the
\* resolver, reported before anything executes: in the Duplicate programs
\* two declarations in one block, two equal parameters and two declarations
\* in one function body end in an error with nothing printed, while two
\* declarations in nested scopes or at global scope are no such error: the
\* print a; before them is executed.
C28_DuplicateDeclaration ==
    (Ended /\ source.family = "Duplicate") =>
        IF source.j \in 0..3
        THEN phase = "error" /\ out = <<>> /\ log = <<>>
        ELSE /\ Len(out) >= 1
             /\ out[1] = Display(source.a)
             /\ source.j = 4 => phase = "done"

\* C29: a / b is the runtime error Can't divide by zero. exactly when a and
\* b are numbers and b is zero, the runtime error Operands must be numbers.
\* when a or b is not a number (whatever the other is, zero too), and the
\* quotient otherwise.
C29_DivisionErrors ==
    (Ended /\ source.family = "Division") =>
        CASE source.a \in Numbers /\ source.b \in Numbers /\ source.b.n = 0 ->
                 RuntimeErrorOnly /\ error.msg = "Can't divide by zero."
          [] source.a \in Numbers /\ source.b \in Numbers /\ source.b.n # 0 ->
                 Printed(IF source.j = 0 THEN <<NumToString(source.a.n \div source.b.n)>>
                         ELSE <<>>)
          [] OTHER ->
                 RuntimeErrorOnly /\ error.msg = "Operands must be numbers."

(***************************************************************************)
(* The parser's error recovery on its own: Parser::_synchronize, started   *)
(* at any token of the tokens of a text.  pc is Parser.current, clock      *)
(* counts the iterations of the loop, and phase is "synchronize" before    *)
(* the first advance, "loop" at the head of the loop and "synchronized"    *)
(* once _synchronize has returned.                                         *)
(***************************************************************************)
MaxIterations == 6

SyncSources ==
    {[family |-> "Synchronize", words |-> t, at |-> i] :
        t \in WordTexts(MaxWords), i \in 1..(MaxWords + 1)}

InitSync ==
    /\ source \in {s \in SyncSources : s.at <= Len(s.words) + 1}
    /\ tokens = TokensOf(source.words)
    /\ phase = "synchronize"
    /\ pc = source.at
    /\ clock = 0
    /\ statements = <<>>
    /\ scopes = <<>>
    /\ current_func = "None"
    /\ locals = <<>>
    /\ envs = <<>>
    /\ funs = <<>>
    /\ env = 0
    /\ out = <<>>
    /\ log = <<>>
    /\ error = NoErr
    /\ had_error = FALSE
    /\ had_runtime_error = FALSE
    /\ exit_code = Running

\* the token types at which the match of _synchronize stops discarding
StatementStarts == {"CLASS", "FUN", "VAR", "FOR", "IF", "WHILE", "PRINT", "RETURN"}

\* _synchronize, line 108: the advance before the loop
SynchronizeAdvance ==
    /\ phase = "synchronize"
    /\ pc' = advance([tokens |-> tokens, current |-> pc]).current
    /\ phase' = "loop"
    /\ UNCHANGED <<source, statements, scopes, current_func, locals, envs, funs, env, out,
                   log, error, clock, tokens>>
    /\ UNCHANGED lox

\* _synchronize, lines 109-126: the test of the loop and one iteration
SynchronizeLoop ==
    /\ phase = "loop"
    /\ clock < MaxIterations
    /\ LET P == [tokens |-> tokens, current |-> pc] IN
       IF parser_is_at_end(P)
       THEN phase' = "synchronized" /\ UNCHANGED <<pc, clock>>
       ELSE IF previous(P).type = "SEMICOLON"
       THEN phase' = "synchronized" /\ clock' = clock + 1 /\ UNCHANGED pc
       ELSE IF peek(P).type \in StatementStarts
       THEN UNCHANGED <<phase, pc>> /\ clock' = clock + 1
       ELSE pc' = advance(P).current /\ clock' = clock + 1 /\ UNCHANGED phase
    /\ UNCHANGED <<source, statements, scopes, current_func, locals, envs, funs, env, out,
                   log, error, tokens>>
    /\ UNCHANGED lox

NextSync ==
    \/ SynchronizeAdvance
    \/ SynchronizeLoop

SpecSync == InitSync /\ [][NextSync]_vars

\* C30: _synchronize ends on every token sequence that ends in EOF.  No
\* iteration of its loop leaves the parser where it was: one that does not
\* return consumes a token, so there are never more iterations than tokens;
\* and it returns only with a ; just consumed or at a token that starts a
\* statement (class fun var for if while print return) or at EOF.
C30_SynchronizeTerminates ==
    /\ [][(phase = "loop" /\ phase' = "loop") => pc' = pc + 1]_vars
    /\ [](clock <= Len(tokens))
    /\ [](phase = "synchronized" =>
             \/ pc > 1 /\ tokens[pc - 1].type = "SEMICOLON"
             \/ tokens[pc].type \in StatementStarts \cup {"EOF"})

====
